---------------------------- MODULE Spec2Model ----------------------------
(***************************************************************************)
(* A model of the GitHub client of PyLinks (src/src/pylinks/api/github.py):*)
(* one Repo object, the operations a caller may invoke on it, and the      *)
(* requests each operation hands to the HTTP request function.             *)
(*                                                                         *)
(* The HTTP request function and the remote service are the environment:   *)
(* every request is answered either by a decoded body or by a failure      *)
(* (an HTTP error or a decode error), chosen nondeterministically.         *)
(***************************************************************************)
EXTENDS Integers, Sequences, FiniteSets, TLC

VARIABLES
    self,       \* the Repo object: _username, _name, _token and its GitHub client
    op,         \* the operation called ("none" while no call is running)
    args,       \* the arguments of that call
    pc,         \* "idle": no call is running; "loop": inside a pagination loop;
                \* "done": the call has ended and its outcome is with the caller
    page,       \* the pagination loop's local `page` (0 when no loop is running)
    acc,        \* the pagination loop's local accumulator list
    log,        \* the exchanges (request, response) of the current call, in order
    outcome,    \* how the call ended: returned a value or raised an error
    prev,       \* how the call before this one ended ("none": there was none)
    OFFLINE_MODE,   \* pylinks.OFFLINE_MODE, the process-wide flag
    disk        \* the local files: destination path -> content

\* what lies outside the clients
world == <<OFFLINE_MODE, disk>>

vars == <<self, op, args, pc, page, acc, log, outcome, prev, OFFLINE_MODE, disk>>

---------------------------------------------------------------------------
(* Bounds of the model. *)

\* the number of pages of a listing endpoint that may hold items: every page
\* after these is empty
MaxPages == 3

(* Program constants. *)

\* per_page=100 and `len(response) < 100`
PageSize == 100
\* `len(topic) > 50`
MaxTopicLen == 50
\* `len(description) > 100`
MaxDescriptionLen == 100

---------------------------------------------------------------------------
(* Python values. *)

None == [t |-> "none"]
Bool(b) == [t |-> "bool", v |-> b]
Str(s) == [t |-> "str", v |-> s]
Num(n) == [t |-> "int", v |-> n]

\* a str whose characters matter (it is matched against a pattern): v is the
\* sequence of its characters
Text(chars) == [t |-> "str", v |-> chars]
List(l) == [t |-> "list", v |-> l]
Dict(d) == [t |-> "dict", v |-> d]

\* `x is not None`
IsNotNone(x) == x.t # "none"

\* `isinstance(x, str)`
IsStr(x) == x.t = "str"

\* the truth value of x in `if x:` and `not x`
Truthy(x) ==
    CASE x.t = "none" -> FALSE
      [] x.t = "bool" -> x.v
      [] x.t = "int"  -> x.v # 0
      [] x.t = "dict" -> DOMAIN x.v # {}
      [] OTHER        -> Len(x.v) > 0

\* `str(x)` of a str or an int
ToStr(x) == IF x.t = "int" THEN Str(ToString(x.v)) ELSE x

\* `dict_a | dict_b`: the keys of both, b's value on a collision
Merge(a, b) == [k \in DOMAIN a \cup DOMAIN b |-> IF k \in DOMAIN b THEN b[k] ELSE a[k]]

\* the empty dict
EmptyDict == [k \in {} |-> None]

\* `if c: d[k] = v`
SetIf(d, c, k, v) == IF c THEN Merge(d, [x \in {k} |-> v]) ELSE d

---------------------------------------------------------------------------
(* The GitHub client. *)

Tokens == {"", "tok"}

\* GitHub.__init__: the endpoints, the token and the default headers
GitHub(token) ==
    [ endpoint |-> [api |-> "https://api.github.com", upload |-> "https://uploads.github.com"],
      token    |-> token,
      headers  |-> IF token # ""
                     THEN [k \in {"X-GitHub-Api-Version", "Authorization"} |->
                             IF k = "Authorization" THEN "Bearer " \o token ELSE "2022-11-28"]
                     ELSE [k \in {"X-GitHub-Api-Version"} |-> "2022-11-28"] ]

\* Repo.__init__
Repo(username, name, token) ==
    [ username |-> username, name |-> name, token |-> token, github |-> GitHub(token) ]

\* GitHub.rest_query: the request handed to the HTTP request function
rest_query(gh, query, verb, data, json, response_type, extra_headers, endpoint) ==
    [ verb          |-> verb,
      endpoint      |-> endpoint,
      base          |-> gh.endpoint[endpoint],
      query         |-> query,
      headers       |-> IF DOMAIN extra_headers # {} THEN Merge(gh.headers, extra_headers)
                                                     ELSE gh.headers,
      data          |-> data,
      json          |-> json,
      response_type |-> response_type ]

\* a variant that sends a failed request a second time
ExchangeRetried(req, resp) ==
    IF resp.kind # "ok" THEN << [req |-> req, resp |-> resp], [req |-> req, resp |-> resp] >>
                        ELSE << [req |-> req, resp |-> resp] >>

\* rest_query hands the request to the HTTP request function once and does not
\* catch what it raises: the one exchange this adds to the call's log
Exchange(req, resp) == << [req |-> req, resp |-> resp] >>

\* Repo._rest_query: the query is prefixed with repos/<username>/<name>/
Repo_rest_query(r, query, verb, data, json, response_type, extra_headers, endpoint) ==
    rest_query(r.github, "repos/" \o r.username \o "/" \o r.name \o "/" \o query,
               verb, data, json, response_type, extra_headers, endpoint)

\* a GET with every default of Repo._rest_query
Get(r, query) == Repo_rest_query(r, query, "GET", None, None, "json", EmptyDict, "api")

---------------------------------------------------------------------------
(* The environment: what the HTTP request function answers. *)

\* a failure raised by the HTTP request function
Failures == { [kind |-> "HTTPError", status |-> 404], [kind |-> "DecodeError"] }

Ok(body) == [kind |-> "ok", body |-> body]

Failed(resp) == resp.kind # "ok"

\* the items of a listing endpoint are distinct and arrive newest first
Item(p, i) == (MaxPages + 2 - p) * PageSize - i

\* the numbers of items a listing endpoint may put on page p
PageLens(p) == IF p <= MaxPages THEN {0, 42, 99, PageSize} ELSE {0}

\* the page of n items the endpoint returns for page index p
PageContent(p, n) == [i \in 1..n |-> Item(p, i)]

---------------------------------------------------------------------------
(* How a call ends. *)

Return(v) == [kind |-> "return", value |-> v]
Raise(e) == [kind |-> "raise", error |-> e]
NoOutcome == [kind |-> "none"]

---------------------------------------------------------------------------
(* Paginated operations: branches, labels, issue_labels, issue_comments,   *)
(* pull_list.                                                              *)

PlainPaginated == {"branches", "labels", "issue_labels", "pull_list"}
Paginated == PlainPaginated \cup {"issue_comments"}

Numbers == {7}
MaxCounts == {-1, 0, 100, 150, 1000}
Heads == {None, Str("feat")}

\* the arguments each paginated operation may be called with
PaginatedArgs(o) ==
    CASE o = "issue_labels"   -> [number : Numbers]
      [] o = "issue_comments" -> [number : Numbers, max_count : MaxCounts]
      [] o = "pull_list"      -> [state : {"open"}, head : Heads, base : {None},
                                  sort : {"created"}, direction : {"desc"}]
      [] OTHER                -> {EmptyDict}

\* pull_list: the query before the page index is appended
pull_list_query(a) ==
    LET q0 == "pulls?state=" \o a.state \o "&sort=" \o a.sort
                \o "&direction=" \o a.direction \o "&per_page=100"
        q1 == IF IsNotNone(a.head) /\ a.head.v # "" THEN q0 \o "&head=" \o a.head.v ELSE q0
    IN  IF IsNotNone(a.base) /\ a.base.v # "" THEN q1 \o "&base=" \o a.base.v ELSE q1

\* the query of the request for page p
PageQuery(o, a, p) ==
    CASE o = "branches"       -> "branches?per_page=100&page=" \o ToString(p)
      [] o = "labels"         -> "labels?per_page=100&page=" \o ToString(p)
      [] o = "issue_labels"   -> "issues/" \o ToString(a.number)
                                    \o "/labels?per_page=100&page=" \o ToString(p)
      [] o = "issue_comments" -> "issues/" \o ToString(a.number)
                                    \o "/comments?per_page=100&page=" \o ToString(p)
      [] o = "pull_list"      -> pull_list_query(a) \o "&page=" \o ToString(p)

\* a variant that counts pages from 0
FirstPageZero == 1 - 1

\* `page = 1` and the empty accumulator before the loop
FirstPage == 1
EmptyList == << >>

\* a variant that asks for the same page again
NextPageStays(p) == p

\* a variant that skips every other page
NextPageSkips(p) == p + 2

\* `page += 1`
NextPage(p) == p + 1

\* a variant that puts the new page in front
ExtendInFront(list, response) == response \o list

\* `branches.extend(response)`
Extend(list, response) == list \o response

\* a variant that takes a page of exactly 100 items for the last one
LoopBreakAtFullPage(o, a, response, list) ==
    IF o = "issue_comments"
        THEN Len(response) <= PageSize \/ Len(list) >= a.max_count
        ELSE Len(response) <= PageSize

\* a variant in which issue_comments stops at the cap alone
LoopBreakCapOnly(o, a, response, list) ==
    IF o = "issue_comments"
        THEN Len(list) >= a.max_count
        ELSE Len(response) < PageSize

\* a variant without the cap of issue_comments
LoopBreakWithoutCap(o, a, response, list) == Len(response) < PageSize

\* a variant that goes on when the cap is met exactly
LoopBreakPastCap(o, a, response, list) ==
    IF o = "issue_comments"
        THEN Len(response) < PageSize \/ Len(list) > a.max_count
        ELSE Len(response) < PageSize

\* the `break` condition at the end of an iteration
LoopBreak(o, a, response, list) ==
    IF o = "issue_comments"
        THEN Len(response) < PageSize \/ Len(list) >= a.max_count
        ELSE Len(response) < PageSize

\* a paginated operation is called: the locals are set up, no request yet
CallPaginated ==
    /\ pc = "idle"
    /\ \E o \in Paginated : \E a \in PaginatedArgs(o) :
         /\ op' = o
         /\ args' = a
    /\ pc' = "loop"
    /\ page' = FirstPage
    /\ acc' = EmptyList
    /\ log' = << >>
    /\ outcome' = NoOutcome
    /\ UNCHANGED <<self, prev, world>>

\* one iteration of `while True`: the request for `page` fails ...
FetchPageFails ==
    /\ pc = "loop"
    /\ \E f \in Failures :
         /\ log' = log \o Exchange(Get(self, PageQuery(op, args, page)), f)
         /\ outcome' = Raise(f)
    /\ pc' = "done"
    /\ page' = 0
    /\ acc' = << >>
    /\ UNCHANGED <<self, op, args, prev, world>>

\* ... or returns its page of n items, which is appended; then the loop
\* breaks or goes on
Fetched(n) ==
    LET response == PageContent(page, n)
        list == Extend(acc, response)
    IN  /\ log' = log \o Exchange(Get(self, PageQuery(op, args, page)), Ok(response))
        /\ IF LoopBreak(op, args, response, list)
             THEN /\ pc' = "done"
                  /\ outcome' = Return(list)
                  /\ page' = 0
                  /\ acc' = << >>
             ELSE /\ pc' = "loop"
                  /\ outcome' = outcome
                  /\ page' = NextPage(page)
                  /\ acc' = list

\* an endpoint that runs out: its pages past MaxPages are empty
FetchPage ==
    /\ pc = "loop"
    /\ page <= MaxPages + 1
    /\ \E n \in PageLens(page) : Fetched(n)
    /\ UNCHANGED <<self, op, args, prev, world>>

\* the pages followed of an endpoint that never runs out
MaxFullPages == 12

\* an endpoint of comments that never runs out: every page past MaxPages is full
FetchFullPage ==
    /\ pc = "loop"
    /\ op = "issue_comments"
    /\ page > MaxPages /\ page <= MaxFullPages
    /\ Fetched(PageSize)
    /\ UNCHANGED <<self, op, args, prev, world>>

---------------------------------------------------------------------------
(* Operations that run to their end in one step. *)

\* the call of operation o with arguments a made the exchanges l and ended with r
Finish(o, a, l, r) ==
    /\ pc = "idle"
    /\ op' = o
    /\ args' = a
    /\ pc' = "done"
    /\ page' = 0
    /\ acc' = << >>
    /\ log' = l
    /\ outcome' = r
    /\ UNCHANGED <<self, prev, world>>

\* the caller has the outcome of the call and may call again
Called ==
    /\ pc = "done"
    /\ pc' = "idle"
    /\ op' = "none"
    /\ args' = EmptyDict
    /\ log' = << >>
    /\ outcome' = NoOutcome
    /\ prev' = outcome.kind
    /\ UNCHANGED <<self, page, acc, world>>

\* the value of `self._rest_query(...)`: the decoded body, or the failure raised
Result(resp) == IF Failed(resp) THEN Raise(resp) ELSE Return(resp.body)

\* what GET repos/<username>/<name>/ may answer
RepoBodies == { Dict([node_id |-> Str("R_1"), name |-> Str("name")]) }

RepoResponses == {Ok(b) : b \in RepoBodies} \cup Failures

RECURSIVE GetPath(_, _)
\* `x[k1][k2]...`: the value, or the KeyError or TypeError the subscripts raise
GetPath(x, keys) ==
    IF keys = << >> THEN Return(x)
    ELSE IF x.t # "dict" THEN Raise([kind |-> "TypeError"])
    ELSE IF Head(keys) \notin DOMAIN x.v THEN Raise([kind |-> "KeyError", key |-> Head(keys)])
    ELSE GetPath(x.v[Head(keys)], Tail(keys))

\* the exchanges l, followed by the run r of the rest of the operation
After(l, r) == [log |-> l \o r.log, outcome |-> r.outcome]

\* a run that ends without a further request
Ends(r) == [log |-> << >>, outcome |-> r]

\* `return self._rest_query(...)`: one request, its result is the operation's
Query(req, resp) == [log |-> Exchange(req, resp), outcome |-> Result(resp)]

\* Repo.info
info ==
    /\ pc = "idle"
    /\ \E resp \in RepoResponses :
         Finish("info", EmptyDict, Exchange(Get(self, ""), resp), Result(resp))

---------------------------------------------------------------------------
(* GraphQL. *)

\* GitHub.graphql_query: the request handed to the HTTP request function
graphql_query(gh, query, mutation, extra_headers, response_type) ==
    [ verb          |-> "POST",
      endpoint      |-> "api",
      base          |-> gh.endpoint["api"],
      query         |-> "graphql",
      headers       |-> IF DOMAIN extra_headers # {} THEN Merge(gh.headers, extra_headers)
                                                     ELSE gh.headers,
      data          |-> None,
      json          |-> Dict([query |-> Str((IF mutation THEN "mutation " ELSE "")
                                              \o "{" \o query \o "}")]),
      response_type |-> response_type ]

\* GitHub.graphql_mutation: the request
graphql_mutation_request(gh, mutation_name, mutation_input_name, mutation_input, mutation_payload, extra_headers) ==
    [ verb          |-> "POST",
      endpoint      |-> "api",
      base          |-> gh.endpoint["api"],
      query         |-> "graphql",
      headers       |-> IF DOMAIN extra_headers # {} THEN Merge(gh.headers, extra_headers)
                                                     ELSE gh.headers,
      data          |-> None,
      json          |-> Dict([query |-> Str("mutation($mutationInput:" \o mutation_input_name
                                              \o "!) {" \o mutation_name
                                              \o "(input:$mutationInput) {"
                                              \o mutation_payload \o "}}"),
                              variables |-> Dict([mutationInput |-> Dict(mutation_input)])]),
      response_type |-> "json" ]

\* a variant that unwraps "data" without looking for "errors"
graphql_mutation_unwraps(gh, mutation_name, mutation_input_name, mutation_input, mutation_payload, extra_headers, resp) ==
    [ log     |-> Exchange(graphql_mutation_request(gh, mutation_name, mutation_input_name,
                               mutation_input, mutation_payload, extra_headers), resp),
      outcome |-> IF Failed(resp) THEN Raise(resp) ELSE GetPath(resp.body, <<"data">>) ]

\* GitHub.graphql_mutation: the response when it holds "errors", else its "data"
graphql_mutation(gh, mutation_name, mutation_input_name, mutation_input, mutation_payload, extra_headers, resp) ==
    [ log     |-> Exchange(graphql_mutation_request(gh, mutation_name, mutation_input_name,
                               mutation_input, mutation_payload, extra_headers), resp),
      outcome |-> IF Failed(resp) THEN Raise(resp)
                  ELSE IF "errors" \in DOMAIN resp.body.v THEN Return(resp.body)
                  ELSE GetPath(resp.body, <<"data">>) ]

\* the "errors" value of a GraphQL error envelope
GraphQLErrors == List(<< Str("FORBIDDEN") >>)

\* what the GraphQL endpoint may answer to mutation m, `payload` being the
\* selection it returns on success: the data, or an envelope with "errors"
\* (without "data", or with the mutation's data null)
GraphQLBodies(m, payload) ==
    { Dict([data |-> Dict([k \in {m} |-> payload])]),
      Dict([errors |-> GraphQLErrors]),
      Dict([data |-> Dict([k \in {m} |-> None]), errors |-> GraphQLErrors]) }

GraphQLResponses(m, payload) == {Ok(b) : b \in GraphQLBodies(m, payload)} \cup Failures

---------------------------------------------------------------------------
(* Operations with many optional arguments: the sets of arguments tried. *)

\* no optional argument set, one set, or two set
UpToTwo(names) == {{}} \cup {{x, y} : x, y \in names}

\* the value tried for an argument of a kind: a falsy one (i = 1), a truthy one (i = 2)
Sample(kind, i) ==
    CASE kind = "bool" -> Bool(i = 2)
      [] kind = "int"  -> Num(IF i = 1 THEN 0 ELSE 2)
      [] kind = "list" -> List(IF i = 1 THEN << >> ELSE << Str("ci") >>)
      [] OTHER         -> Str(IF i = 1 THEN "" ELSE "x")

---------------------------------------------------------------------------
(* Branch protection rules. *)

\* Repo._prepare_branch_protection_rule_input: arg_map
arg_map ==
    [ rule_id                          |-> "branchProtectionRuleId",
      pattern                          |-> "pattern",
      allow_deletions                  |-> "allowsDeletions",
      allow_force_pushes               |-> "allowsForcePushes",
      block_creations                  |-> "blocksCreations",
      bypass_force_push_actor_ids      |-> "bypassForcePushActorIds",
      bypass_pull_request_actor_ids    |-> "bypassPullRequestActorIds",
      dismiss_stale_reviews            |-> "dismissesStaleReviews",
      enforce_admins                   |-> "isAdminEnforced",
      lock_allows_fetch_and_merge      |-> "lockAllowsFetchAndMerge",
      lock_branch                      |-> "lockBranch",
      push_actor_ids                   |-> "pushActorIds",
      require_last_push_approval       |-> "requireLastPushApproval",
      required_approving_review_count  |-> "requiredApprovingReviewCount",
      required_deployment_environments |-> "requiredDeploymentEnvironments",
      required_status_check_contexts   |-> "requiredStatusCheckContexts",
      require_approving_reviews        |-> "requiresApprovingReviews",
      require_codeowner_reviews        |-> "requiresCodeOwnerReviews",
      require_commit_signatures        |-> "requiresCommitSignatures",
      require_conversation_resolution  |-> "requiresConversationResolution",
      require_deployments              |-> "requiresDeployments",
      require_linear_history           |-> "requiresLinearHistory",
      require_status_checks            |-> "requiresStatusChecks",
      require_status_checks_strict     |-> "requiresStrictStatusChecks",
      restrict_push                    |-> "restrictsPushes",
      restrict_review_dismissals       |-> "restrictsReviewDismissals",
      review_dismissal_actor_ids       |-> "reviewDismissalActorIds" ]

\* a variant that keeps the arguments that are true instead of those that are set
prepare_input_truthy(kwargs) ==
    LET set == {k \in DOMAIN kwargs : Truthy(kwargs[k])}
    IN  [f \in {arg_map[k] : k \in set} |-> kwargs[CHOOSE k \in set : arg_map[k] = f]]

\* Repo._prepare_branch_protection_rule_input:
\* {arg_map[k]: v for k, v in kwargs.items() if v is not None}
prepare_branch_protection_rule_input(kwargs) ==
    LET set == {k \in DOMAIN kwargs : IsNotNone(kwargs[k])}
    IN  [f \in {arg_map[k] : k \in set} |-> kwargs[CHOOSE k \in set : arg_map[k] = f]]

\* the optional parameters of branch_protection_rule_create (all but pattern)
RuleOptions == DOMAIN arg_map \ {"rule_id", "pattern"}

RuleKind(name) ==
    IF name \in {"pattern", "rule_id"} THEN "str"
    ELSE IF name = "required_approving_review_count" THEN "int"
    ELSE IF name \in {"required_deployment_environments", "required_status_check_contexts",
                      "push_actor_ids", "bypass_force_push_actor_ids",
                      "bypass_pull_request_actor_ids", "review_dismissal_actor_ids"}
         THEN "list"
    ELSE "bool"

\* the arguments tried: the required ones, and up to two of the optional ones
RuleArgs(required, optional) ==
    { [n \in required \cup optional |->
          IF n \in required THEN Sample(RuleKind(n), 2)
          ELSE IF n \in S THEN Sample(RuleKind(n), f[n]) ELSE None]
      : <<S, f>> \in UNION {{<<T, g>> : g \in [T -> {1, 2}]} : T \in UpToTwo(optional)} }

\* the rest of both operations: the rule's id, or the error envelope
RuleResult(g, mutation_name) ==
    IF g.outcome.kind = "raise" THEN g.outcome
    ELSE IF g.outcome.value.t # "dict" THEN Raise([kind |-> "TypeError"])
    ELSE IF "errors" \in DOMAIN g.outcome.value.v THEN Return(g.outcome.value)
    ELSE GetPath(g.outcome.value, <<mutation_name, "branchProtectionRule", "id">>)

\* Repo.branch_protection_rule_create, answered r1 (Repo.info) and r2 (the mutation)
branch_protection_rule_create_run(me, a, r1, r2) ==
    LET inputs == prepare_branch_protection_rule_input(a)
        x1 == Exchange(Get(me, ""), r1)
        node == GetPath(r1.body, <<"node_id">>)
    IN  IF Failed(r1) THEN [log |-> x1, outcome |-> Raise(r1)]
        ELSE IF node.kind = "raise" THEN [log |-> x1, outcome |-> node]
        ELSE LET g == graphql_mutation(me.github, "createBranchProtectionRule",
                          "CreateBranchProtectionRuleInput",
                          Merge(inputs, [repositoryId |-> node.value]),
                          "branchProtectionRule {id}", EmptyDict, r2)
             IN  [log |-> x1 \o g.log, outcome |-> RuleResult(g, "createBranchProtectionRule")]

\* Repo.branch_protection_rule_update, answered r (the mutation)
branch_protection_rule_update_run(me, a, r) ==
    LET g == graphql_mutation(me.github, "updateBranchProtectionRule",
                 "UpdateBranchProtectionRuleInput",
                 prepare_branch_protection_rule_input(a),
                 "branchProtectionRule {id}", EmptyDict, r)
    IN  [log |-> g.log, outcome |-> RuleResult(g, "updateBranchProtectionRule")]

\* the selection a rule mutation returns
RulePayload == Dict([branchProtectionRule |-> Dict([id |-> Str("BPR_1")])])

branch_protection_rule_create ==
    /\ pc = "idle"
    /\ \E a \in RuleArgs({"pattern"}, RuleOptions) :
       \E r1 \in RepoResponses :
       \E r2 \in GraphQLResponses("createBranchProtectionRule", RulePayload) :
         LET run == branch_protection_rule_create_run(self, a, r1, r2)
         IN  Finish("branch_protection_rule_create", a, run.log, run.outcome)

branch_protection_rule_update ==
    /\ pc = "idle"
    /\ \E a \in RuleArgs({"rule_id"}, RuleOptions \cup {"pattern"}) :
       \E r \in GraphQLResponses("updateBranchProtectionRule", RulePayload) :
         LET run == branch_protection_rule_update_run(self, a, r)
         IN  Finish("branch_protection_rule_update", a, run.log, run.outcome)

---------------------------------------------------------------------------
(* Repo.branch_create_linked. *)

\* the `inputs` text: issueId and oid, then name and repositoryId when given
linked_branch_inputs(a) ==
    LET i0 == "issueId: \"" \o a.issue_id.v \o "\", oid: \"" \o a.base_sha.v \o "\""
        i1 == IF Truthy(a.name) THEN i0 \o ", name: \"" \o a.name.v \o "\"" ELSE i0
    IN  IF Truthy(a.repository_id)
            THEN i1 \o ", repositoryId: \"" \o a.repository_id.v \o "\"" ELSE i1

linked_branch_query(a) ==
    "\n            createLinkedBranch(\n                input: {" \o linked_branch_inputs(a)
    \o "}\n            ) {\n                linkedBranch {\n                    ref {\n"
    \o "                        name\n                        target {oid}\n"
    \o "                    }\n                }\n            }\n        "

\* Repo.branch_create_linked, answered r
branch_create_linked_run(me, a, r) ==
    LET x == Exchange(graphql_query(me.github, linked_branch_query(a), TRUE, EmptyDict, "json"), r)
        ref == GetPath(r.body, <<"data", "createLinkedBranch", "linkedBranch", "ref">>)
        name == GetPath(ref.value, <<"name">>)
        oid == GetPath(ref.value, <<"target", "oid">>)
    IN  [ log     |-> x,
          outcome |-> IF Failed(r) THEN Raise(r)
                      ELSE IF "errors" \in DOMAIN r.body.v THEN Return(r.body)
                      ELSE IF ref.kind = "raise" THEN ref
                      ELSE IF name.kind = "raise" THEN name
                      ELSE IF oid.kind = "raise" THEN oid
                      ELSE Return(Dict([name |-> name.value, sha |-> oid.value])) ]

LinkedBranchArgs ==
    [ issue_id : {Str("I_1")}, base_sha : {Str("abc")},
      name : {None, Str("fix")}, repository_id : {None, Str("R_1")} ]

LinkedBranchPayload ==
    Dict([linkedBranch |->
            Dict([ref |-> Dict([name |-> Str("fix"), target |-> Dict([oid |-> Str("abc")])])])])

branch_create_linked ==
    /\ pc = "idle"
    /\ \E a \in LinkedBranchArgs :
       \E r \in GraphQLResponses("createLinkedBranch", LinkedBranchPayload) :
         LET run == branch_create_linked_run(self, a, r)
         IN  Finish("branch_create_linked", a, run.log, run.outcome)

---------------------------------------------------------------------------
(* Issues and pull requests. *)

\* what a PATCH, PUT or POST that returns a resource may answer
ResourceBodies == { Dict([id |-> Num(1)]) }
ResourceResponses == {Ok(b) : b \in ResourceBodies} \cup Failures

\* what GET pulls/<number> may answer
PullBodies == { Dict([node_id |-> Str("PR_1"), number |-> Num(7)]) }
PullResponses == {Ok(b) : b \in PullBodies} \cup Failures

\* the answer to a request that is not made
NoResponse == [kind |-> "unasked"]

\* the answers tried for a request that is made only when c holds
Maybe(c, responses) == IF c THEN responses ELSE {NoResponse}

\* Repo.issue_update, answered r
issue_update_run(me, a, r) ==
    LET d1 == SetIf(EmptyDict, IsNotNone(a.title), "title", ToStr(a.title))
        d2 == SetIf(d1, IsNotNone(a.body), "body", ToStr(a.body))
        d3 == SetIf(d2, IsNotNone(a.state), "state", a.state)
        d4 == SetIf(d3, IsNotNone(a.state_reason), "state_reason", a.state_reason)
    IN  Query(Repo_rest_query(me, "issues/" \o ToString(a.number), "PATCH", None, Dict(d4),
                              "json", EmptyDict, "api"), r)

IssueUpdateArgs ==
    [ number : Numbers, title : {None, Str(""), Str("t"), Num(5)}, body : {None, Str(""), Str("b")},
      state : {None, Str("closed")}, state_reason : {None, Str("completed")} ]

issue_update ==
    /\ pc = "idle"
    /\ \E a \in IssueUpdateArgs : \E r \in ResourceResponses :
         LET run == issue_update_run(self, a, r)
         IN  Finish("issue_update", a, run.log, run.outcome)

\* Repo.pull_update: the PATCH, answered r
pull_update_patch(me, a, r) ==
    LET d1 == SetIf(EmptyDict, IsNotNone(a.title), "title", a.title)
        d2 == SetIf(d1, IsNotNone(a.body), "body", a.body)
        d3 == SetIf(d2, IsNotNone(a.state), "state", a.state)
        d4 == SetIf(d3, IsNotNone(a.base), "base", a.base)
        d5 == SetIf(d4, IsNotNone(a.maintainer_can_modify), "maintainer_can_modify",
                    a.maintainer_can_modify)
    IN  Query(Repo_rest_query(me, "pulls/" \o ToString(a.number), "PATCH", None, Dict(d5),
                              "json", EmptyDict, "api"), r)

\* a variant that sends the PATCH also after the mutation's request has raised
pull_update_patches_anyway(me, a, r1, r2, r3) ==
    IF IsNotNone(a.draft)
        THEN LET x1 == Exchange(Get(me, "pulls/" \o ToString(a.number)), r1)
                 node == GetPath(r1.body, <<"node_id">>)
             IN  IF Failed(r1) THEN [log |-> x1, outcome |-> Raise(r1)]
                 ELSE IF node.kind = "raise" THEN [log |-> x1, outcome |-> node]
                 ELSE LET g == graphql_mutation(me.github,
                                   IF a.draft.v THEN "convertPullRequestToDraft"
                                                ELSE "markPullRequestReadyForReview",
                                   IF a.draft.v THEN "ConvertPullRequestToDraftInput"
                                                ELSE "MarkPullRequestReadyForReviewInput",
                                   [pullRequestId |-> node.value],
                                   "pullRequest {isDraft}", EmptyDict, r2)
                      IN  After(x1 \o g.log, pull_update_patch(me, a, r3))
        ELSE pull_update_patch(me, a, r3)

\* Repo.pull_update, answered r1 (Repo.pull), r2 (the mutation) and r3 (the PATCH):
\* what graphql_mutation returns is dropped
pull_update_run(me, a, r1, r2, r3) ==
    IF IsNotNone(a.draft)
        THEN LET x1 == Exchange(Get(me, "pulls/" \o ToString(a.number)), r1)
                 node == GetPath(r1.body, <<"node_id">>)
             IN  IF Failed(r1) THEN [log |-> x1, outcome |-> Raise(r1)]
                 ELSE IF node.kind = "raise" THEN [log |-> x1, outcome |-> node]
                 ELSE LET g == graphql_mutation(me.github,
                                   IF a.draft.v THEN "convertPullRequestToDraft"
                                                ELSE "markPullRequestReadyForReview",
                                   IF a.draft.v THEN "ConvertPullRequestToDraftInput"
                                                ELSE "MarkPullRequestReadyForReviewInput",
                                   [pullRequestId |-> node.value],
                                   "pullRequest {isDraft}", EmptyDict, r2)
                      IN  IF g.outcome.kind = "raise" THEN After(x1, g)
                          ELSE After(x1 \o g.log, pull_update_patch(me, a, r3))
        ELSE pull_update_patch(me, a, r3)

PullUpdateArgs ==
    [ number : Numbers, title : {None, Str("t")}, body : {None, Str("")},
      state : {None, Str("closed")}, base : {None, Str("main")},
      draft : {None, Bool(FALSE), Bool(TRUE)}, maintainer_can_modify : {None, Bool(FALSE)} ]

\* the mutation pull_update sends for `draft`
DraftMutation(draft) ==
    IF draft.t = "bool" /\ draft.v THEN "convertPullRequestToDraft"
                                   ELSE "markPullRequestReadyForReview"

pull_update ==
    /\ pc = "idle"
    /\ \E a \in PullUpdateArgs :
       \E r1 \in Maybe(IsNotNone(a.draft), PullResponses) :
       \E r2 \in Maybe(IsNotNone(a.draft),
                       GraphQLResponses(DraftMutation(a.draft),
                                        Dict([pullRequest |-> Dict([isDraft |-> a.draft])]))) :
       \E r3 \in ResourceResponses :
         LET run == pull_update_run(self, a, r1, r2, r3)
         IN  Finish("pull_update", a, run.log, run.outcome)

\* Repo.pull_merge, answered r
pull_merge_run(me, a, r) ==
    LET d1 == SetIf(EmptyDict, IsNotNone(a.commit_title), "commit_title", a.commit_title)
        d2 == SetIf(d1, IsNotNone(a.commit_message), "commit_message", a.commit_message)
        d3 == SetIf(d2, IsNotNone(a.sha), "sha", a.sha)
        d4 == SetIf(d3, IsNotNone(a.merge_method), "merge_method", a.merge_method)
    IN  Query(Repo_rest_query(me, "pulls/" \o ToString(a.number) \o "/merge", "PUT", None,
                              IF DOMAIN d4 # {} THEN Dict(d4) ELSE None,
                              "json", EmptyDict, "api"), r)

PullMergeArgs ==
    [ number : Numbers, commit_title : {None, Str(""), Str("t")}, commit_message : {None, Str("m")},
      sha : {None, Str("abc")}, merge_method : {None, Str("squash")} ]

pull_merge ==
    /\ pc = "idle"
    /\ \E a \in PullMergeArgs : \E r \in ResourceResponses :
         LET run == pull_merge_run(self, a, r)
         IN  Finish("pull_merge", a, run.log, run.outcome)

---------------------------------------------------------------------------
(* Repo.repo_update. *)

\* the parameters that travel in requests of their own
RepoToggles == {"private_vulnerability_reporting", "vulnerability_alerts",
                "automated_security_fixes"}

\* the parameters gathered under "security_and_analysis"
RepoSecurity == {"advanced_security", "secret_scanning", "secret_scanning_push_protection"}

\* the parameters that are text; the others are bool
RepoTexts == {"name", "description", "homepage", "visibility", "default_branch",
              "squash_merge_commit_title", "squash_merge_commit_message",
              "merge_commit_title", "merge_commit_message"}

\* the parameters that go into the PATCH under their own name
RepoFields == RepoTexts \cup
    {"has_issues", "has_projects", "has_wiki", "is_template", "allow_squash_merge",
     "allow_merge_commit", "allow_rebase_merge", "allow_auto_merge", "delete_branch_on_merge",
     "allow_update_branch", "archived", "allow_forking", "web_commit_signoff_required"}

RepoParams == RepoFields \cup RepoSecurity \cup RepoToggles \cup {"has_discussions"}

\* the arguments tried: up to two of the parameters set
RepoUpdateArgs ==
    { [n \in RepoParams |->
          IF n \in S THEN Sample(IF n \in RepoTexts THEN "str" ELSE "bool", f[n]) ELSE None]
      : <<S, f>> \in UNION {{<<T, g>> : g \in [T -> {1, 2}]} : T \in UpToTwo(RepoParams)} }

\* the text of the updateRepository mutation
discussions_query(has_discussions, node_id) ==
    "\n                updateRepository(\n                    input: {\n"
    \o "                        hasDiscussionsEnabled: "
    \o (IF Truthy(has_discussions) THEN "true" ELSE "false") \o ", \n"
    \o "                        repositoryId: \"" \o node_id.v \o "\"\n"
    \o "                    }\n                ) {\n"
    \o "                    repository {hasDiscussionsEnabled}\n                }\n            "

\* a variant with the two verbs exchanged
toggle_run_swapped(me, query, value, r) ==
    IF IsNotNone(value)
        THEN [ log     |-> Exchange(Repo_rest_query(me, query,
                                        IF Truthy(value) THEN "DELETE" ELSE "PUT",
                                        None, None, "str", EmptyDict, "api"), r),
               outcome |-> IF Failed(r) THEN Raise(r) ELSE Return(None) ]
        ELSE Ends(Return(None))

\* a toggle: PUT when true, DELETE when false, the answer is dropped
toggle_run(me, query, value, r) ==
    IF IsNotNone(value)
        THEN [ log     |-> Exchange(Repo_rest_query(me, query,
                                        IF Truthy(value) THEN "PUT" ELSE "DELETE",
                                        None, None, "str", EmptyDict, "api"), r),
               outcome |-> IF Failed(r) THEN Raise(r) ELSE Return(None) ]
        ELSE Ends(Return(None))

\* Repo.repo_update from `security_and_analysis = {}` on: the PATCH, answered r,
\* when a field is left to send; `output` is what was gathered before
repo_update_patch(me, a, output, r) ==
    LET security_and_analysis ==
            [n \in {m \in RepoSecurity : IsNotNone(a[m])} |->
                Dict([status |-> Str(IF Truthy(a[n]) THEN "enabled" ELSE "disabled")])]
        data == SetIf([n \in RepoFields |-> a[n]], DOMAIN security_and_analysis # {},
                      "security_and_analysis", Dict(security_and_analysis))
        final_data == [k \in {n \in DOMAIN data : IsNotNone(data[n])} |-> data[k]]
    IN  IF DOMAIN final_data # {}
            THEN Query(Repo_rest_query(me, "", "PATCH", None, Dict(final_data),
                                       "json", EmptyDict, "api"), r)
            ELSE Ends(Return(Dict(output)))

\* Repo.repo_update after the has_discussions step, answered r3, r4, r5 (the
\* toggles) and r6 (the PATCH)
repo_update_rest(me, a, output, r3, r4, r5, r6) ==
    LET t1 == toggle_run(me, "private-vulnerability-reporting",
                         a.private_vulnerability_reporting, r3)
        t2 == toggle_run(me, "vulnerability-alerts", a.vulnerability_alerts, r4)
        t3 == toggle_run(me, "automated-security-fixes", a.automated_security_fixes, r5)
    IN  IF t1.outcome.kind = "raise" THEN t1
        ELSE IF t2.outcome.kind = "raise" THEN After(t1.log, t2)
        ELSE IF t3.outcome.kind = "raise" THEN After(t1.log \o t2.log, t3)
        ELSE After(t1.log \o t2.log \o t3.log, repo_update_patch(me, a, output, r6))

\* Repo.repo_update, answered r1 (Repo.info) and r2 (the mutation) for
\* has_discussions, then as above
repo_update_run(me, a, r1, r2, r3, r4, r5, r6) ==
    IF IsNotNone(a.has_discussions)
        THEN LET x1 == Exchange(Get(me, ""), r1)
                 node == GetPath(r1.body, <<"node_id">>)
             IN  IF Failed(r1) THEN [log |-> x1, outcome |-> Raise(r1)]
                 ELSE IF node.kind = "raise" THEN [log |-> x1, outcome |-> node]
                 ELSE LET x2 == Exchange(graphql_query(me.github,
                                            discussions_query(a.has_discussions, node.value),
                                            TRUE, EmptyDict, "json"), r2)
                          enabled == GetPath(r2.body, <<"data", "updateRepository",
                                                        "repository", "hasDiscussionsEnabled">>)
                      IN  IF Failed(r2) THEN [log |-> x1 \o x2, outcome |-> Raise(r2)]
                          ELSE IF enabled.kind = "raise"
                                   THEN [log |-> x1 \o x2, outcome |-> enabled]
                          ELSE After(x1 \o x2,
                                     repo_update_rest(me, a,
                                         [hasDiscussionsEnabled |-> enabled.value],
                                         r3, r4, r5, r6))
        ELSE repo_update_rest(me, a, EmptyDict, r3, r4, r5, r6)

\* what a toggle request may answer (response_type "str")
ToggleResponses == {Ok(Str(""))} \cup Failures

repo_update ==
    /\ pc = "idle"
    /\ \E a \in RepoUpdateArgs :
       \E r1 \in Maybe(IsNotNone(a.has_discussions), RepoResponses) :
       \E r2 \in Maybe(IsNotNone(a.has_discussions),
                       GraphQLResponses("updateRepository",
                           Dict([repository |->
                                   Dict([hasDiscussionsEnabled |-> a.has_discussions])]))) :
       \E r3 \in Maybe(IsNotNone(a.private_vulnerability_reporting), ToggleResponses) :
       \E r4 \in Maybe(IsNotNone(a.vulnerability_alerts), ToggleResponses) :
       \E r5 \in Maybe(IsNotNone(a.automated_security_fixes), ToggleResponses) :
       \E r6 \in ResourceResponses :
         LET run == repo_update_run(self, a, r1, r2, r3, r4, r5, r6)
         IN  Finish("repo_update", a, run.log, run.outcome)

---------------------------------------------------------------------------
(* Operations that validate their arguments. *)

\* a sequence of n characters c
Chars(n, c) == [i \in 1..n |-> c]

\* the text of a character sequence
RECURSIVE Join(_)
Join(chars) == IF chars = << >> THEN "" ELSE Head(chars) \o Join(Tail(chars))

Digits == {"0", "1", "2", "3", "4", "5", "6", "7", "8", "9"}
HexLetters == {"a", "b", "c", "d", "e", "f", "A", "B", "C", "D", "E", "F"}
LowerLetters == {"a", "b", "c", "d", "e", "f", "g", "h", "i", "j", "k", "l", "m", "n", "o",
                 "p", "q", "r", "s", "t", "u", "v", "w", "x", "y", "z"}

\* `$` in pattern.match(s) matches at the end of s and before a last newline:
\* the other string the body of the pattern may span
BeforeLastNewline(s) ==
    IF Len(s) > 0 /\ s[Len(s)] = "\n" THEN SubSeq(s, 1, Len(s) - 1) ELSE s

\* [a-z0-9][a-z0-9\-]*
TopicBody(s) ==
    /\ Len(s) >= 1
    /\ s[1] \in LowerLetters \cup Digits
    /\ \A i \in 2..Len(s) : s[i] \in LowerLetters \cup Digits \cup {"-"}

\* [0-9a-fA-F]{6}
ColorBody(s) == Len(s) = 6 /\ \A i \in 1..6 : s[i] \in Digits \cup HexLetters

topic_pattern_match(s) == TopicBody(s) \/ TopicBody(BeforeLastNewline(s))
color_pattern_match(s) == ColorBody(s) \/ ColorBody(BeforeLastNewline(s))

TypeError(about) == [kind |-> "TypeError", about |-> about]
ValueError(about) == [kind |-> "ValueError", about |-> about]
NoError == [kind |-> "none"]

\* Repo.repo_topics_replace: the checks on one topic
topic_error(topic) ==
    IF ~IsStr(topic) THEN TypeError("Topic must be a string")
    ELSE IF Len(topic.v) > MaxTopicLen THEN ValueError("Topic must be 50 characters or less")
    ELSE IF ~topic_pattern_match(topic.v) THEN ValueError("Topic contains invalid pattern")
    ELSE NoError

\* Repo.repo_topics_replace, answered r
repo_topics_replace_run(me, a, r) ==
    LET bad == {i \in 1..Len(a.topics) : topic_error(a.topics[i]) # NoError}
        first == CHOOSE i \in bad : \A j \in bad : i <= j
    IN  IF bad # {} THEN Ends(Raise(topic_error(a.topics[first])))
        ELSE Query(Repo_rest_query(me, "topics", "PUT", None,
                                   Dict([names |-> List(a.topics)]),
                                   "json", EmptyDict, "api"), r)

TopicSamples ==
    { Text(<<"a", "b">>), Text(<<"c", "-", "1">>), Text(<<"A">>), Text(<<"-", "a">>),
      Text(<< >>), Text(<<"a", "\n">>), Text(Chars(MaxTopicLen, "a")),
      Text(Chars(MaxTopicLen + 1, "a")), Num(3) }

TopicsArgs == [ topics : {<< >>} \cup {<<t>> : t \in TopicSamples}
                           \cup {<<t, u>> : t, u \in TopicSamples} ]

repo_topics_replace ==
    /\ pc = "idle"
    /\ \E a \in TopicsArgs : \E r \in ResourceResponses :
         LET run == repo_topics_replace_run(self, a, r)
         IN  Finish("repo_topics_replace", a, run.log, run.outcome)

\* Repo._validate_label_data
validate_label_data(name, color, description) ==
    IF ~IsStr(name) \/ ~IsStr(color) \/ ~IsStr(description)
        THEN TypeError("Input argument must be a string")
    ELSE IF Truthy(color) /\ ~color_pattern_match(color.v)
        THEN ValueError("The color must be a hexadecimal string of length 6")
    ELSE IF Len(description.v) > MaxDescriptionLen
        THEN ValueError("The description must be 100 characters or less")
    ELSE NoError

NameSamples == { Text(<<"b", "u", "g">>), Text(<< >>), Num(1) }

ColorSamples ==
    { Text(<< >>), Text(<<"a", "1", "B", "2", "c", "3">>), Text(<<"r", "e", "d">>),
      Text(<<"#", "a", "1", "B", "2", "c", "3">>), Text(<<"0", "0", "0", "0", "0", "0", "\n">>),
      Text(<<"g", "g", "g", "g", "g", "g">>), Num(0) }

DescriptionSamples ==
    { Text(<< >>), Text(Chars(MaxDescriptionLen, "d")), Text(Chars(MaxDescriptionLen + 1, "d")),
      Num(2) }

\* Repo.label_create, answered r
label_create_run(me, a, r) ==
    LET error == validate_label_data(a.name, a.color, a.description)
        d1 == SetIf([name |-> a.name], Truthy(a.color), "color", a.color)
        d2 == SetIf(d1, Truthy(a.description), "description", a.description)
    IN  IF error # NoError THEN Ends(Raise(error))
        ELSE Query(Repo_rest_query(me, "labels", "POST", None, Dict(d2),
                                   "json", EmptyDict, "api"), r)

LabelCreateArgs == [ name : NameSamples, color : ColorSamples, description : DescriptionSamples ]

label_create ==
    /\ pc = "idle"
    /\ \E a \in LabelCreateArgs : \E r \in ResourceResponses :
         LET run == label_create_run(self, a, r)
         IN  Finish("label_create", a, run.log, run.outcome)

\* what a request with response_type "str" may answer
TextResponses == {Ok(Str(""))} \cup Failures

\* Repo.label_delete, answered r
label_delete_run(me, a, r) ==
    IF ~IsStr(a.name) THEN Ends(Raise(TypeError("The label name must be a string")))
    ELSE Query(Repo_rest_query(me, "labels/" \o Join(a.name.v), "DELETE", None, None,
                               "str", EmptyDict, "api"), r)

label_delete ==
    /\ pc = "idle"
    /\ \E a \in [name : NameSamples] : \E r \in TextResponses :
         LET run == label_delete_run(self, a, r)
         IN  Finish("label_delete", a, run.log, run.outcome)

\* a variant that sends the PATCH before it looks whether `data` is empty
label_update_checks_late(me, a, r) ==
    LET error == validate_label_data(a.new_name, a.color, a.description)
        d1 == SetIf(EmptyDict, Truthy(a.new_name), "new_name", a.new_name)
        d2 == SetIf(d1, Truthy(a.color), "color", a.color)
        d3 == SetIf(d2, Truthy(a.description), "description", a.description)
        sent == Query(Repo_rest_query(me, "labels/" \o Join(a.name.v), "PATCH", None, Dict(d3),
                                      "json", EmptyDict, "api"), r)
    IN  IF error # NoError THEN Ends(Raise(error))
        ELSE IF ~IsStr(a.name) THEN Ends(Raise(TypeError("The label name must be a string")))
        ELSE IF DOMAIN d3 = {}
            THEN [log |-> sent.log, outcome |-> Raise(ValueError("At least one"))]
        ELSE sent

\* Repo.label_update, answered r
label_update_run(me, a, r) ==
    LET error == validate_label_data(a.new_name, a.color, a.description)
        d1 == SetIf(EmptyDict, Truthy(a.new_name), "new_name", a.new_name)
        d2 == SetIf(d1, Truthy(a.color), "color", a.color)
        d3 == SetIf(d2, Truthy(a.description), "description", a.description)
    IN  IF error # NoError THEN Ends(Raise(error))
        ELSE IF ~IsStr(a.name) THEN Ends(Raise(TypeError("The label name must be a string")))
        ELSE IF DOMAIN d3 = {}
            THEN Ends(Raise(ValueError("At least one of 'new_name', 'color', or 'description'")))
        ELSE Query(Repo_rest_query(me, "labels/" \o Join(a.name.v), "PATCH", None, Dict(d3),
                                   "json", EmptyDict, "api"), r)

LabelUpdateArgs ==
    [ name : NameSamples, new_name : NameSamples, color : ColorSamples,
      description : DescriptionSamples ]

label_update ==
    /\ pc = "idle"
    /\ \E a \in LabelUpdateArgs : \E r \in ResourceResponses :
         LET run == label_update_run(self, a, r)
         IN  Finish("label_update", a, run.log, run.outcome)

\* Repo.pull_create, answered r
pull_create_run(me, a, r) ==
    LET d0 == [head |-> a.head, base |-> a.base,
               maintainer_can_modify |-> a.maintainer_can_modify, draft |-> a.draft]
        d1 == SetIf(d0, Truthy(a.issue), "issue", a.issue)
        d2 == SetIf(d1, Truthy(a.title), "title", a.title)
        d3 == SetIf(d2, Truthy(a.body), "body", a.body)
        d4 == SetIf(d3, Truthy(a.head_repo), "head_repo", a.head_repo)
    IN  IF ~(Truthy(a.issue) \/ Truthy(a.title))
            THEN Ends(Raise(ValueError("Either 'issue' or 'title' must be specified")))
        ELSE Query(Repo_rest_query(me, "pulls", "POST", None, Dict(d4),
                                   "json", EmptyDict, "api"), r)

PullCreateArgs ==
    [ head : {Str("feat")}, base : {Str("main")}, title : {Str(""), Str("t")},
      issue : {Num(0), Num(7)}, body : {Str(""), Str("b")},
      maintainer_can_modify : {Bool(TRUE)}, draft : {Bool(FALSE), Bool(TRUE)},
      head_repo : {Str(""), Str("fork")} ]

pull_create ==
    /\ pc = "idle"
    /\ \E a \in PullCreateArgs : \E r \in ResourceResponses :
         LET run == pull_create_run(self, a, r)
         IN  Finish("pull_create", a, run.log, run.outcome)

\* the checks of a legacy build's source without the one on the path, as a
\* mutant of legacy_source_error
legacy_source_any_path(a) ==
    IF ~Truthy(a.branch) THEN ValueError("Branch must be specified for legacy builds")
    ELSE NoError

\* the checks of a legacy build's source, shared by pages_create and pages_update
legacy_source_error(a) ==
    IF ~Truthy(a.branch) THEN ValueError("Branch must be specified for legacy builds")
    ELSE IF a.path \notin {Str("/"), Str("/docs")}
        THEN ValueError("Path must be '/' or '/docs' for legacy builds")
    ELSE NoError

\* `data["source"] = {"branch": branch, "path": path}`
with_source(data, a) ==
    Merge(data, [source |-> Dict([branch |-> a.branch, path |-> a.path])])

\* Repo.pages_create, answered r
pages_create_run(me, a, r) ==
    LET legacy == a.build_type = Str("legacy")
        d0 == [build_type |-> a.build_type]
    IN  IF a.build_type \notin {Str("legacy"), Str("workflow")}
            THEN Ends(Raise(ValueError("Invalid build type")))
        ELSE IF legacy /\ legacy_source_error(a) # NoError
            THEN Ends(Raise(legacy_source_error(a)))
        ELSE Query(Repo_rest_query(me, "pages", "POST", None,
                                   Dict(IF legacy THEN with_source(d0, a) ELSE d0),
                                   "json", EmptyDict, "api"), r)

BuildTypes == {Str("legacy"), Str("workflow"), Str("jekyll")}
PagesBranches == {None, Str(""), Str("main")}
PagesPaths == {Str("/"), Str("/docs"), Str("/src")}

PagesCreateArgs == [ build_type : BuildTypes, branch : PagesBranches, path : PagesPaths ]

pages_create ==
    /\ pc = "idle"
    /\ \E a \in PagesCreateArgs : \E r \in ResourceResponses :
         LET run == pages_create_run(self, a, r)
         IN  Finish("pages_create", a, run.log, run.outcome)

\* a request whose answer is dropped: the operation returns None
Dropped(run) ==
    [ log     |-> run.log,
      outcome |-> IF run.outcome.kind = "raise" THEN run.outcome ELSE Return(None) ]

\* the cname sent as it was given, as a mutant of cname_value
cname_as_given(cname) == cname

\* `cname if cname else None`
cname_value(cname) == IF Truthy(cname) THEN cname ELSE None

\* Repo.pages_update, answered r
pages_update_run(me, a, r) ==
    LET legacy == a.build_type = Str("legacy")
        d1 == SetIf(EmptyDict, IsNotNone(a.cname), "cname", cname_value(a.cname))
        d2 == SetIf(d1, IsNotNone(a.https_enforced), "https_enforced", a.https_enforced)
        d3 == SetIf(d2, IsNotNone(a.build_type), "build_type", a.build_type)
    IN  IF IsNotNone(a.build_type) /\ a.build_type \notin {Str("legacy"), Str("workflow")}
            THEN Ends(Raise(ValueError("Invalid build type")))
        ELSE IF legacy /\ legacy_source_error(a) # NoError
            THEN Ends(Raise(legacy_source_error(a)))
        ELSE Dropped(Query(Repo_rest_query(me, "pages", "PUT", None,
                                           Dict(IF legacy THEN with_source(d3, a) ELSE d3),
                                           "str", EmptyDict, "api"), r))

PagesUpdateArgs ==
    [ cname : {None, Str(""), Str("x.org")}, https_enforced : {None, Bool(TRUE)},
      build_type : BuildTypes \cup {None}, branch : PagesBranches, path : PagesPaths ]

pages_update ==
    /\ pc = "idle"
    /\ \E a \in PagesUpdateArgs : \E r \in TextResponses :
         LET run == pages_update_run(self, a, r)
         IN  Finish("pages_update", a, run.log, run.outcome)

\* Repo.actions_permissions_workflow_default_set, answered r
actions_permissions_workflow_default_set_run(me, a, r) ==
    LET d1 == SetIf(EmptyDict, IsNotNone(a.permissions),
                    "default_workflow_permissions", a.permissions)
        d2 == SetIf(d1, IsNotNone(a.can_approve_pull_requests),
                    "can_approve_pull_request_reviews", a.can_approve_pull_requests)
    IN  IF DOMAIN d2 = {}
            THEN Ends(Raise(ValueError("At least one of 'permissions' or "
                                       \o "'can_approve_pull_requests' must be specified")))
        ELSE Dropped(Query(Repo_rest_query(me, "actions/permissions/workflow", "PUT", None,
                                           Dict(d2), "str", EmptyDict, "api"), r))

WorkflowPermissionsArgs ==
    [ permissions : {None, Str("read"), Str("write")},
      can_approve_pull_requests : {None, Bool(FALSE), Bool(TRUE)} ]

actions_permissions_workflow_default_set ==
    /\ pc = "idle"
    /\ \E a \in WorkflowPermissionsArgs : \E r \in TextResponses :
         LET run == actions_permissions_workflow_default_set_run(self, a, r)
         IN  Finish("actions_permissions_workflow_default_set", a, run.log, run.outcome)

\* the files release_asset_upload may be pointed at: whether the resolved path
\* is a file, its name, what mimetypes.guess_type makes of it, and its bytes
Files ==
    { [path |-> "dist/a.txt", is_file |-> TRUE, name |-> "a.txt",
       guess |-> Str("text/plain"), bytes |-> "text"],
      [path |-> "dist/a.blob", is_file |-> TRUE, name |-> "a.blob",
       guess |-> None, bytes |-> "blob"],
      [path |-> "dist", is_file |-> FALSE, name |-> "dist",
       guess |-> None, bytes |-> ""] }

\* Repo.release_asset_upload, answered r
release_asset_upload_run(me, a, r) ==
    LET filepath == a.filepath
        mime_type == IF Truthy(a.mime_type) THEN a.mime_type ELSE filepath.guess
        q0 == "releases/" \o ToString(a.release_id) \o "/assets?name=" \o filepath.name
        query == IF Truthy(a.label) THEN q0 \o "&label=" \o a.label.v ELSE q0
    IN  IF ~filepath.is_file THEN Ends(Raise([kind |-> "FileNotFoundError"]))
        ELSE IF ~Truthy(mime_type) THEN Ends(Raise([kind |-> "RuntimeError"]))
        ELSE Query(Repo_rest_query(me, query, "POST", [t |-> "bytes", v |-> filepath.bytes],
                                   None, "json", [k \in {"Content-Type"} |-> mime_type.v],
                                   "upload"), r)

ReleaseAssetArgs ==
    [ release_id : {1}, filepath : Files, mime_type : {Str(""), Str("application/zip")},
      label : {Str(""), Str("l")} ]

release_asset_upload ==
    /\ pc = "idle"
    /\ \E a \in ReleaseAssetArgs : \E r \in ResourceResponses :
         LET run == release_asset_upload_run(self, a, r)
         IN  Finish("release_asset_upload", a, run.log, run.outcome)

---------------------------------------------------------------------------
(* The three clients: a GitHub object, the User it derives, the Repo that  *)
(* the User derives, and the requests made through each of them.           *)

\* User.__init__
User(username, token) == [ username |-> username, token |-> token, github |-> GitHub(token) ]

\* a variant that derives the User without the token
GitHub_user_anonymous(gh, username) == User(username, "")

\* GitHub.user
GitHub_user(gh, username) == User(username, gh.token)

\* User.repo
User_repo(u, repo_name) == Repo(u.username, repo_name, u.token)

\* which class a client is of
ClientKind(c) ==
    IF "name" \in DOMAIN c THEN "Repo" ELSE IF "username" \in DOMAIN c THEN "User" ELSE "GitHub"

\* the GitHub object that sends a client's requests: self._github, or the client
GitHubOf(c) == IF "github" \in DOMAIN c THEN c.github ELSE c

\* User._rest_query: the query is prefixed with users/<username>/
User_rest_query(u, query, verb, data, json, response_type, extra_headers, endpoint) ==
    rest_query(u.github, "users/" \o u.username \o "/" \o query,
               verb, data, json, response_type, extra_headers, endpoint)

\* the request a client of any class makes for rest_query / _rest_query
Client_rest_query(c, query, extra_headers, endpoint) ==
    CASE ClientKind(c) = "Repo" ->
            Repo_rest_query(c, query, "GET", None, None, "json", extra_headers, endpoint)
      [] ClientKind(c) = "User" ->
            User_rest_query(c, query, "GET", None, None, "json", extra_headers, endpoint)
      [] OTHER ->
            rest_query(c, query, "GET", None, None, "json", extra_headers, endpoint)

\* a variant of `a | b` that updates a in place (`a |= b`)
dict_ior(a, b) == [result |-> Merge(a, b), left |-> Merge(a, b)]

\* `a | b` on dicts: a new dict; `left` is a afterwards
dict_or(a, b) == [result |-> Merge(a, b), left |-> a]

\* `url / segment`: a new URL; `left` is url afterwards
url_div(u, segment) == [result |-> u \o "/" \o segment, left |-> u]

\* the GitHub object after rest_query, graphql_query or graphql_mutation has
\* built the headers and the URL of a request
GitHubAfter(gh, extra_headers, endpoint, segment) ==
    [ gh EXCEPT !.headers  = IF DOMAIN extra_headers # {}
                                 THEN dict_or(gh.headers, extra_headers).left
                                 ELSE gh.headers,
                !.endpoint = [gh.endpoint EXCEPT
                                 ![endpoint] = url_div(gh.endpoint[endpoint], segment).left] ]

\* the client after a request made through it
ClientAfter(c, extra_headers, endpoint, segment) ==
    IF "github" \in DOMAIN c
        THEN [c EXCEPT !.github = GitHubAfter(c.github, extra_headers, endpoint, segment)]
        ELSE GitHubAfter(c, extra_headers, endpoint, segment)

\* the extra_headers tried: none, a new header, an override of Authorization
ExtraHeaders ==
    { EmptyDict,
      [k \in {"Accept"} |-> "application/vnd.github.raw"],
      [k \in {"Authorization"} |-> "Bearer other"] }

\* what a request of a client may answer
ClientResponses == {Ok(Dict([id |-> Num(1)]))} \cup Failures

\* GitHub.user: the client in hand becomes the derived User
derive_user ==
    /\ pc = "idle"
    /\ ClientKind(self) = "GitHub"
    /\ self' = GitHub_user(self, "owner")
    /\ UNCHANGED <<op, args, pc, page, acc, log, outcome, prev, world>>

\* User.repo: the client in hand becomes the derived Repo
derive_repo ==
    /\ pc = "idle"
    /\ ClientKind(self) = "User"
    /\ self' = User_repo(self, "name")
    /\ UNCHANGED <<op, args, pc, page, acc, log, outcome, prev, world>>

\* a call that made the exchanges l through the client and ended as r
ClientCall(o, a, l, r, segment) ==
    /\ op' = o
    /\ args' = a
    /\ pc' = "done"
    /\ log' = l
    /\ outcome' = r
    /\ self' = ClientAfter(self, a.extra_headers, a.endpoint, segment)
    /\ UNCHANGED <<page, acc, prev, world>>

\* GitHub.rest_query, User._rest_query, Repo._rest_query
client_rest_query ==
    /\ pc = "idle"
    /\ \E a \in [query : {"", "events"}, extra_headers : ExtraHeaders,
                 endpoint : {"api", "upload"}] :
       \E r \in ClientResponses :
         LET req == Client_rest_query(self, a.query, a.extra_headers, a.endpoint)
         IN  ClientCall("rest_query", a, Exchange(req, r), Result(r), req.query)

\* GitHub.graphql_query of the client's GitHub object
client_graphql_query ==
    /\ pc = "idle"
    /\ \E a \in [query : {"viewer {login}"}, mutation : BOOLEAN,
                 extra_headers : ExtraHeaders, endpoint : {"api"}] :
       \E r \in ClientResponses :
         LET req == graphql_query(GitHubOf(self), a.query, a.mutation, a.extra_headers, "json")
         IN  ClientCall("graphql_query", a, Exchange(req, r), Result(r), "graphql")

\* GitHub.graphql_mutation of the client's GitHub object
client_graphql_mutation ==
    /\ pc = "idle"
    /\ \E a \in [extra_headers : ExtraHeaders, endpoint : {"api"}] :
       \E r \in GraphQLResponses("addStar", Dict([clientMutationId |-> None])) :
         LET run == graphql_mutation(GitHubOf(self), "addStar", "AddStarInput",
                                     [starrableId |-> Str("R_1")], "clientMutationId",
                                     a.extra_headers, r)
         IN  ClientCall("graphql_mutation", a, run.log, run.outcome, "graphql")

---------------------------------------------------------------------------
(* The process-wide flag and the reachability probe of created URLs.       *)

\* a variant in which the process starts offline
offline_by_default == TRUE

\* pylinks/__init__.py: OFFLINE_MODE: bool = False
OFFLINE_MODE_default == FALSE

\* no local file
NoFiles == [f \in {} |-> ""]

\* whether a URL generator runs the probe: the flag is false and the caller
\* asks for validation
should_probe(offline, verify) == verify /\ ~offline

\* is_reachable: one network probe of the URL; it answers a bool, never raises
is_reachable(u, reachable) ==
    Exchange([verb |-> "HEAD", url |-> u], Ok(Bool(reachable)))

\* a URL generator asked for u, with or without validation, while the flag is
\* `offline`; the probe, when made, finds u reachable or not
url_run(offline, a, reachable) ==
    IF should_probe(offline, a.verify)
        THEN [ log     |-> is_reachable(a.url, reachable),
               outcome |-> Return(Dict([url |-> Str(a.url), reachable |-> Bool(reachable)])) ]
        ELSE Ends(Return(Dict([url |-> Str(a.url), reachable |-> None])))

UrlSamples ==
    { "https://github.com/owner/name", "https://pypi.org/project/pylinks",
      "https://anaconda.org/conda-forge/pylinks", "https://pylinks.readthedocs.io",
      "https://mybinder.org/v2/gh/owner/name/HEAD", "https://doi.org/10.1000/182" }

\* the hosting application writes the flag, between calls
set_offline_mode ==
    /\ pc = "idle"
    /\ \E b \in BOOLEAN : OFFLINE_MODE' = b
    /\ UNCHANGED <<self, op, args, pc, page, acc, log, outcome, prev, disk>>

\* a URL is created, the caller asking for validation or not
url_create ==
    /\ pc = "idle"
    /\ \E a \in [url : UrlSamples, verify : BOOLEAN] : \E reachable \in BOOLEAN :
         LET run == url_run(OFFLINE_MODE, a, reachable)
         IN  Finish("url", a, run.log, run.outcome)

---------------------------------------------------------------------------
(* The URL object: a text is a sequence of tokens, each delimiter a token  *)
(* of its own, and Join gives the string it stands for.                    *)

\* the position of the first token x in tokens, or one past the end
RECURSIVE IndexOf(_, _)
IndexOf(tokens, x) ==
    IF tokens = << >> \/ Head(tokens) = x THEN 1 ELSE 1 + IndexOf(Tail(tokens), x)

\* the path segments of a text: what stands between the "/"; empty ones drop
path_segments(tokens) == SelectSeq(tokens, LAMBDA t : t \notin {"/", ""})

\* the pairs of a query text k=v&k=v...
query_pairs(tokens) ==
    [i \in 1..((Len(tokens) + 1) \div 4) |-> <<tokens[4 * i - 3], tokens[4 * i - 1]>>]

\* merge_query: a key already held keeps its place and takes the new value,
\* a new key goes last
RECURSIVE merge_query(_, _)
merge_query(query, pairs) ==
    IF pairs = << >> THEN query
    ELSE LET kv == Head(pairs)
             held == {i \in 1..Len(query) : query[i][1] = kv[1]}
         IN  merge_query(IF held = {} THEN Append(query, kv)
                         ELSE [i \in 1..Len(query) |-> IF i \in held THEN kv ELSE query[i]],
                         Tail(pairs))

\* `url / text`: a new URL with the path of the text appended and its query,
\* when it has one, merged in
url_join(u, tokens) ==
    LET q == IndexOf(tokens, "?")
    IN  [u EXCEPT !.path  = @ \o path_segments(SubSeq(tokens, 1, q - 1)),
                  !.query = merge_query(@, query_pairs(SubSeq(tokens, q + 1, Len(tokens))))]

\* url(spec): scheme "://" host, then path and query
url_parse(tokens) ==
    url_join([scheme |-> tokens[1], host |-> tokens[3], path |-> << >>, query |-> << >>],
             SubSeq(tokens, 4, Len(tokens)))

\* percent-encoding of a token: the reserved ones are escaped
percent_encode(t) ==
    CASE t = " " -> "%20"
      [] t = "/" -> "%2F"
      [] t = "?" -> "%3F"
      [] t = "&" -> "%26"
      [] t = "=" -> "%3D"
      [] OTHER   -> t

RECURSIVE path_string(_)
path_string(path) ==
    IF path = << >> THEN "" ELSE "/" \o percent_encode(Head(path)) \o path_string(Tail(path))

RECURSIVE query_string(_)
query_string(query) ==
    IF query = << >> THEN ""
    ELSE percent_encode(Head(query)[1]) \o "=" \o percent_encode(Head(query)[2])
         \o (IF Len(query) > 1 THEN "&" ELSE "") \o query_string(Tail(query))

\* to_string: scheme://host[/seg...][?k=v&...], the query in insertion order,
\* an empty query left out
to_string(u) ==
    u.scheme \o "://" \o u.host \o path_string(u.path)
    \o (IF u.query = << >> THEN "" ELSE "?" \o query_string(u.query))

\* the text of an endpoint and of the query of the request for page p of the
\* labels: f"repos/{username}/{name}/" and f"labels?per_page=100&page={page}"
endpoint_tokens == << "https", "://", "api.github.com" >>

\* a variant that puts the page index before the page size
labels_tokens_page_first(r, p) ==
    << "repos", "/", r.username, "/", r.name, "/",
       "labels", "?", "page", "=", ToString(p), "&", "per_page", "=", ToString(PageSize) >>

labels_tokens(r, p) ==
    << "repos", "/", r.username, "/", r.name, "/",
       "labels", "?", "per_page", "=", ToString(PageSize), "&", "page", "=", ToString(p) >>

---------------------------------------------------------------------------
(* Downloads: Repo.content, Repo.download_file, Repo.download_dir and the  *)
(* file download helper.                                                   *)

\* the entries of the repository: a path is a text, its tokens joined by "/"
FileEntry(path) ==
    Dict([type |-> Str("file"), path |-> Text(path),
          download_url |-> Str("https://raw.githubusercontent.com/owner/name/" \o Join(path))])
DirEntry(path) == Dict([type |-> Str("dir"), path |-> Text(path)])
SymlinkEntry(path) ==
    Dict([type |-> Str("symlink"), path |-> Text(path),
          download_url |-> Str("https://raw.githubusercontent.com/owner/name/" \o Join(path))])

\* the directories of the repository: two files of the same name, one in the
\* root and one in sub
Tree ==
    [ root |-> << FileEntry(<<"a.txt">>), DirEntry(<<"sub">>) >>,
      sub  |-> << FileEntry(<<"sub", "/", "a.txt">>), FileEntry(<<"sub", "/", "b.txt">>) >> ]

\* what GET contents/<path> answers: the listing of a directory, the entry of a file
content_answer(path) ==
    CASE path = << >>       -> Ok(List(Tree.root))
      [] path = <<"sub">>   -> Ok(List(Tree.sub))
      [] path = <<"link">>  -> Ok(SymlinkEntry(path))
      [] OTHER              -> Ok(FileEntry(path))

\* Repo.content: f"contents/{path.removesuffix('/')}{f'?ref={ref}' if ref else ''}"
content_query(path, ref) ==
    "contents/" \o Join(IF path # << >> /\ path[Len(path)] = "/"
                            THEN SubSeq(path, 1, Len(path) - 1) ELSE path)
    \o (IF Truthy(ref) THEN "?ref=" \o ref.v ELSE "")

\* Path(p).name
PathName(path) == path[Len(path)]

\* the bytes behind a download URL
RemoteBytes(u) == "bytes of " \o u

\* a running download operation: the files, the exchanges, the paths gathered,
\* the number of network steps made, and the error raised (NoOutcome: none)
Started(files) ==
    [disk |-> files, log |-> << >>, paths |-> << >>, n |-> 0, outcome |-> NoOutcome]

\* whether the environment fails the next network step
FailsNext(env, st) == env.fault # NoError /\ env.fault.at = st.n + 1

\* Repo.content inside a download operation
content_step(me, path, ref, env, st) ==
    LET resp == IF FailsNext(env, st) THEN env.fault.f ELSE content_answer(path)
    IN  [st EXCEPT !.log = @ \o Exchange(Get(me, content_query(path, ref)), resp),
                   !.n = @ + 1,
                   !.outcome = IF Failed(resp) THEN Raise(resp) ELSE NoOutcome]

\* the file download helper: it refuses to write over a file unless overwrite
\* is given as true; a transfer that fails may leave a partial file
download_step(u, filepath, create_dirs, overwrite, env, st) ==
    LET refused == filepath \in DOMAIN st.disk /\ ~Truthy(overwrite)
        failed == ~refused /\ FailsNext(env, st)
        written == IF refused \/ (failed /\ ~env.partial) THEN st.disk
                   ELSE Merge(st.disk, [f \in {filepath} |->
                                           IF failed THEN "partial" ELSE RemoteBytes(u)])
        result == IF refused THEN "refused" ELSE IF failed THEN "failed" ELSE "written"
    IN  [st EXCEPT !.disk = written,
                   !.log = @ \o << [req |-> [verb |-> "download", url |-> u,
                                             filepath |-> filepath, create_dirs |-> create_dirs,
                                             overwrite |-> overwrite],
                                    resp |-> [kind |-> result]] >>,
                   !.n = @ + 1,
                   !.outcome = IF failed THEN Raise(env.fault.f)
                               ELSE IF refused /\ env.refusal = "raise"
                                   THEN Raise([kind |-> "FileExistsError"])
                               ELSE NoOutcome]

\* a variant of download_file that always asks for overwriting
always_overwrite(a) == Bool(TRUE)

\* Repo.download_file: `overwrite=overwrite`
download_file_overwrite(a) == Bool(a.overwrite)

\* a variant that takes every single entry for a file
not_a_dict(content) == content.t # "dict"

\* Repo.download_file: `not isinstance(content, dict) or content["type"] != "file"`
not_a_file(content) == content.t # "dict" \/ content.v.type # Str("file")

\* Repo.download_file
download_file_run(me, a, files, env) ==
    LET st1 == content_step(me, a.path, a.ref, env, Started(files))
        content == st1.log[1].resp.body
        filename == IF Truthy(a.download_filename) THEN a.download_filename.v
                    ELSE PathName(content.v.path.v)
        full_download_path == a.download_path \o "/" \o filename
        st2 == download_step(content.v.download_url.v, full_download_path, a.create_dirs,
                             download_file_overwrite(a), env, st1)
    IN  IF st1.outcome # NoOutcome THEN st1
        ELSE IF not_a_file(content)
            THEN [st1 EXCEPT !.outcome = Raise(ValueError("Expected a file"))]
        ELSE IF st2.outcome # NoOutcome THEN st2
        ELSE [st2 EXCEPT !.outcome = Return(Str(full_download_path))]

\* Repo.download_dir: the closure `download`, over the entries left of a listing
RECURSIVE download_entries(_, _, _, _, _)
download_entries(me, a, env, entries, st) ==
    IF entries = << >> \/ st.outcome # NoOutcome THEN st
    ELSE LET entry == Head(entries).v
             full_download_path == a.download_path \o "/" \o PathName(entry.path.v)
             st1 == download_step(entry.download_url.v, full_download_path, a.create_dirs,
                                  None, env, st)
             st2 == content_step(me, entry.path.v, a.ref, env, st)
             content == st2.log[Len(st2.log)].resp.body
         IN  IF entry.type = Str("file")
                 THEN download_entries(me, a, env, Tail(entries),
                          IF st1.outcome # NoOutcome THEN st1
                          ELSE [st1 EXCEPT !.paths = Append(@, full_download_path)])
             ELSE IF entry.type = Str("dir") /\ a.recursive
                 THEN IF st2.outcome # NoOutcome THEN st2
                      ELSE IF content.t \notin {"dict", "list"}
                          THEN [st2 EXCEPT !.outcome =
                                   Raise([kind |-> "RuntimeError"])]
                      ELSE download_entries(me, a, env, Tail(entries),
                               download_entries(me, a, env,
                                   IF content.t = "dict" THEN <<content>> ELSE content.v, st2))
             ELSE download_entries(me, a, env, Tail(entries), st)

\* Repo.download_dir
download_dir_run(me, a, files, env) ==
    LET st1 == content_step(me, a.path, a.ref, env, Started(files))
        dir_content == st1.log[1].resp.body
        st2 == download_entries(me, a, env, dir_content.v, st1)
    IN  IF st1.outcome # NoOutcome THEN st1
        ELSE IF dir_content.t # "list"
            THEN [st1 EXCEPT !.outcome = Raise(ValueError("Expected a directory"))]
        ELSE IF st2.outcome # NoOutcome THEN st2
        ELSE [st2 EXCEPT !.outcome = Return(List(st2.paths))]

\* the network steps one download operation may make
MaxSteps == 5

\* what the environment does to a download operation: it fails one of the
\* network steps or none; a failed transfer leaves a partial file or nothing;
\* the helper raises when it refuses, or skips the file
DownloadEnvs ==
    [ fault   : {NoError} \cup [at : 1..MaxSteps, f : Failures],
      partial : BOOLEAN,
      refusal : {"raise", "skip"} ]

\* the files there may be before the first download
Disks ==
    { NoFiles,
      [f \in {"dl/a.txt"} |-> "old"],
      [f \in {"dl/a.txt", "dl/b.txt"} |-> "old"] }

\* a download operation that ended: the files are what it left
Downloaded(o, a, st) ==
    /\ op' = o
    /\ args' = a
    /\ pc' = "done"
    /\ page' = 0
    /\ acc' = << >>
    /\ log' = st.log
    /\ outcome' = st.outcome
    /\ disk' = st.disk
    /\ UNCHANGED <<self, prev, OFFLINE_MODE>>

DownloadFileArgs ==
    [ path : {<<"a.txt">>, <<"sub", "/", "a.txt">>, <<"sub">>, <<"link">>},
      ref : {None, Str("main")},
      download_path : {"dl"}, download_filename : {None, Str("b.txt")},
      create_dirs : {TRUE}, overwrite : BOOLEAN ]

download_file ==
    /\ pc = "idle"
    /\ \E a \in DownloadFileArgs : \E env \in DownloadEnvs :
         Downloaded("download_file", a, download_file_run(self, a, disk, env))

DownloadDirArgs ==
    [ path : {<< >>, <<"sub">>, <<"sub", "/">>, <<"a.txt">>}, ref : {None, Str("main")},
      recursive : BOOLEAN, download_path : {"dl"}, create_dirs : {TRUE} ]

download_dir ==
    /\ pc = "idle"
    /\ \E a \in DownloadDirArgs : \E env \in DownloadEnvs :
         Downloaded("download_dir", a, download_dir_run(self, a, disk, env))

---------------------------------------------------------------------------
(* Repo.tags, Repo.tag_names and Repo.semantic_versions. A tag name is the *)
(* sequence of its characters.                                             *)

\* str.split(sep) of a character sequence
RECURSIVE Split(_, _)
Split(chars, sep) ==
    LET i == IndexOf(chars, sep)
    IN  IF i > Len(chars) THEN << chars >>
        ELSE << SubSeq(chars, 1, i - 1) >> \o Split(SubSeq(chars, i + 1, Len(chars)), sep)

DigitChars == << "0", "1", "2", "3", "4", "5", "6", "7", "8", "9" >>

\* int(s) of a sequence of digits
RECURSIVE ToInt(_)
ToInt(chars) ==
    IF chars = << >> THEN 0
    ELSE 10 * ToInt(SubSeq(chars, 1, Len(chars) - 1))
         + (IndexOf(DigitChars, chars[Len(chars)]) - 1)

\* \d+\.\d+\.\d+ over a whole character sequence
VersionBody(chars) ==
    LET parts == Split(chars, ".")
    IN  /\ Len(parts) = 3
        /\ \A i \in 1..3 : parts[i] # << >> /\ \A j \in 1..Len(parts[i]) : parts[i][j] \in Digits

\* whether the pattern atom spelled by the character c matches the character x:
\* "." matches any character but a newline, the sampled others themselves
AtomMatches(c, x) == IF c = "." THEN x # "\n" ELSE c = x

\* re.compile(rf"^{tag_prefix}(\d+\.\d+\.\d+)$").match(tag): the groups of the
\* match, or NoMatch; tag_prefix goes into the pattern as it is
NoMatch == << >>
semver_match(tag_prefix, tag) ==
    LET n == Len(tag_prefix)
        rest == SubSeq(tag, n + 1, Len(tag))
    IN  IF /\ Len(tag) > n
           /\ \A i \in 1..n : AtomMatches(tag_prefix[i], tag[i])
           /\ VersionBody(rest) \/ VersionBody(BeforeLastNewline(rest))
            THEN << IF VersionBody(rest) THEN rest ELSE BeforeLastNewline(rest) >>
            ELSE NoMatch

\* tuple(map(int, tag[0].split(".")))
version_tuple(groups) == [i \in 1..3 |-> ToInt(Split(groups[1], ".")[i])]

\* the order of tuples of ints: a < b
TupleLess(a, b) ==
    \E i \in 1..3 : a[i] < b[i] /\ \A j \in 1..(i - 1) : a[j] = b[j]

\* sorted(list): each item goes in after the items that are not greater
RECURSIVE sorted(_)
sorted(list) ==
    IF list = << >> THEN << >>
    ELSE LET rest == sorted(SubSeq(list, 1, Len(list) - 1))
             x == list[Len(list)]
             k == Len(SelectSeq(rest, LAMBDA y : ~TupleLess(x, y)))
         IN  SubSeq(rest, 1, k) \o << x >> \o SubSeq(rest, k + 1, Len(rest))

\* tag['ref'].removeprefix("refs/tags/"): the ref is the token "refs/tags/"
\* and then the characters of the tag name
tag_name(tag) ==
    LET ref == tag.v.ref.v
    IN  IF ref # << >> /\ Head(ref) = "refs/tags/" THEN Tail(ref) ELSE ref

\* Repo.tag_names with the pattern of semantic_versions: the groups of the hits
semver_hits(tag_prefix, tags) ==
    LET groups == [i \in 1..Len(tags) |-> semver_match(tag_prefix, tag_name(tags[i]))]
    IN  SelectSeq(groups, LAMBDA g : g # NoMatch)

\* Repo.semantic_versions, answered r
semantic_versions_run(me, a, r) ==
    LET hits == semver_hits(a.tag_prefix, r.body.v)
    IN  [ log     |-> Exchange(Get(me, "git/refs/tags"), r),
          outcome |-> IF Failed(r) THEN Raise(r)
                      ELSE Return(List(sorted([i \in 1..Len(hits) |-> version_tuple(hits[i])]))) ]

\* the tag names tried
TagSamples ==
    { <<"v", "1", ".", "2", ".", "3">>, <<"v", "0", ".", "1", "0", ".", "0">>,
      <<"v", "0", ".", "9", ".", "0">>, <<"1", ".", "2", ".", "3">>,
      <<"v", "1", ".", "2">>, <<"v", "1", ".", "2", ".", "3", ".", "4">>,
      <<"v", "1", ".", "2", ".", "x">>, <<"v", "1", ".", ".", "3">>,
      <<"v", ".", "1", ".", "0", ".", "7">>, <<"v", "x", "2", ".", "0", ".", "0">>,
      <<"l", "a", "t", "e", "s", "t">> }

\* the number of tags of the repository
MaxTags == 3

\* what GET git/refs/tags answers
TagRef(name) == Dict([ref |-> Text(<<"refs/tags/">> \o name)])
TagsResponses ==
    { Ok(List([i \in 1..n |-> TagRef(names[i])])) :
        <<n, names>> \in UNION {{<<m, f>> : f \in [1..m -> TagSamples]} : m \in 0..MaxTags} }
    \cup Failures

SemanticVersionsArgs == [ tag_prefix : {<<"v">>, << >>, <<"v", ".">>} ]

semantic_versions ==
    /\ pc = "idle"
    /\ \E a \in SemanticVersionsArgs : \E r \in TagsResponses :
         LET run == semantic_versions_run(self, a, r)
         IN  Finish("semantic_versions", a, run.log, run.outcome)

---------------------------------------------------------------------------
(* DOI.__init__. The input is the sequence of its characters.              *)

StartsWith(chars, prefix) ==
    Len(chars) >= Len(prefix) /\ SubSeq(chars, 1, Len(prefix)) = prefix

\* what is left of chars after an optional group (?:prefix)? at its start
AfterOptional(chars, prefix) ==
    IF StartsWith(chars, prefix) THEN SubSeq(chars, Len(prefix) + 1, Len(chars)) ELSE chars

HttpsText == <<"h", "t", "t", "p", "s", ":", "/", "/">>
HttpText == <<"h", "t", "t", "p", ":", "/", "/">>
DxText == <<"d", "x", ".">>
DoiOrgText == <<"d", "o", "i", ".", "o", "r", "g", "/">>
TenDotText == <<"1", "0", ".">>

\* \s
Whitespace == {" ", "\t", "\n"}

\* the length of the longest start of chars whose characters are all in set
RECURSIVE RunLength(_, _)
RunLength(chars, set) ==
    IF chars = << >> \/ Head(chars) \notin set THEN 0 ELSE 1 + RunLength(Tail(chars), set)

\* (10\.\d+/\S+) at the start of chars: the text of the group, or NoMatch
identifier_match(chars) ==
    LET digits == SubSeq(chars, Len(TenDotText) + 1, Len(chars))
        n == RunLength(digits, Digits)
        slash == SubSeq(digits, n + 1, Len(digits))
        m == RunLength(Tail(slash), {c \in {slash[i] : i \in 1..Len(slash)} : c \notin Whitespace})
    IN  IF /\ StartsWith(chars, TenDotText)
           /\ n > 0
           /\ slash # << >> /\ Head(slash) = "/"
           /\ m > 0
            THEN SubSeq(chars, 1, Len(TenDotText) + n + 1 + m)
            ELSE NoMatch

\* re.match(r"(?:https?://)?(?:dx\.)?(?:doi\.org/)?(10\.\d+/\S+)", doi).group(1),
\* or NoMatch. Each optional group is taken where it matches: the group and
\* what follows it never start with the same character.
doi_match(chars) ==
    LET scheme == IF StartsWith(chars, HttpsText) THEN AfterOptional(chars, HttpsText)
                  ELSE AfterOptional(chars, HttpText)
    IN  identifier_match(AfterOptional(AfterOptional(scheme, DxText), DoiOrgText))

\* self.url = f"https://doi.org/{self.doi}"
doi_url(d) == HttpsText \o DoiOrgText \o d

\* DOI(doi): the object made, or the ValueError
DOI(chars) ==
    LET match == doi_match(chars)
    IN  IF match = NoMatch THEN Raise(ValueError("doi"))
        ELSE Return([t |-> "DOI", doi |-> match, url |-> doi_url(match)])

\* the inputs tried: a scheme, "dx.", a host, an identifier and a tail, each
\* well-formed, malformed or missing
DoiSchemes == { << >>, HttpText, HttpsText, <<"f", "t", "p", ":", "/", "/">>, <<"h", "t", "t", "p", ":", "/">> }
DoiDx == { << >>, DxText, <<"d", "x">> }
DoiHosts == { << >>, DoiOrgText, <<"d", "o", "i", ".", "o", "r", "g">>, <<"d", "o", "i", ".", "c", "o", "m", "/">> }
DoiIdentifiers ==
    { <<"1", "0", ".", "1", "0", "0", "0", "/", "x">>, <<"1", "0", ".", "1", "/", "a", ".", "b">>, <<"1", "0", ".", "5", "2", "/", "a", "/", "b">>,
      <<"1", "0", ".", "/", "x">>, <<"1", "1", ".", "1", "/", "x">>, <<"1", "0", ".", "1", "2", "/">>,
      <<"1", "0", ".", "1", "0", "0", "0">>, << >> }
DoiTails == { << >>, <<" ", "y">>, <<"\n">> }
DoiInputs ==
    { s \o x \o h \o d \o t :
        <<s, x, h, d, t>> \in DoiSchemes \X DoiDx \X DoiHosts \X DoiIdentifiers \X DoiTails }

doi_create ==
    /\ pc = "idle"
    /\ \E doi \in DoiInputs :
         Finish("DOI", [doi |-> doi], << >>, DOI(doi))

---------------------------------------------------------------------------

Init ==
    /\ self \in {Repo("owner", "name", t) : t \in Tokens}
    /\ op = "none"
    /\ args = EmptyDict
    /\ pc = "idle"
    /\ page = 0
    /\ acc = << >>
    /\ log = << >>
    /\ outcome = NoOutcome
    /\ prev = "none"
    /\ OFFLINE_MODE = OFFLINE_MODE_default
    /\ disk = NoFiles

\* reading: the paginated listings and Repo.info
NextReads ==
    \/ CallPaginated
    \/ FetchPageFails
    \/ FetchPage
    \/ info
    \/ Called

SpecReads == Init /\ [][NextReads]_vars

\* reading from endpoints that run out and from one that does not; a request
\* that can be answered is answered in the end
NextTermination ==
    \/ CallPaginated
    \/ FetchPageFails
    \/ FetchPage
    \/ FetchFullPage
    \/ Called

SpecTermination ==
    Init /\ [][NextTermination]_vars /\ WF_vars(FetchPage \/ FetchFullPage)

\* updating: the operations with optional fields and the GraphQL mutations
NextUpdates ==
    \/ issue_update
    \/ pull_update
    \/ pull_merge
    \/ repo_update
    \/ branch_protection_rule_create
    \/ branch_protection_rule_update
    \/ branch_create_linked
    \/ Called

SpecUpdates == Init /\ [][NextUpdates]_vars

\* the operations that check their arguments
NextValidated ==
    \/ repo_topics_replace
    \/ label_create
    \/ label_delete
    \/ label_update
    \/ pull_create
    \/ pages_create
    \/ pages_update
    \/ actions_permissions_workflow_default_set
    \/ release_asset_upload
    \/ Called

SpecValidated == Init /\ [][NextValidated]_vars

\* a GitHub object, the clients derived from it, and their requests
InitClient ==
    /\ self \in {GitHub(t) : t \in Tokens}
    /\ op = "none"
    /\ args = EmptyDict
    /\ pc = "idle"
    /\ page = 0
    /\ acc = << >>
    /\ log = << >>
    /\ outcome = NoOutcome
    /\ prev = "none"
    /\ OFFLINE_MODE = OFFLINE_MODE_default
    /\ disk = NoFiles

NextClient ==
    \/ derive_user
    \/ derive_repo
    \/ client_rest_query
    \/ client_graphql_query
    \/ client_graphql_mutation
    \/ Called

SpecClient == InitClient /\ [][NextClient]_vars

\* downloading, with some files there already
InitDownloads ==
    /\ self \in {Repo("owner", "name", t) : t \in Tokens}
    /\ op = "none"
    /\ args = EmptyDict
    /\ pc = "idle"
    /\ page = 0
    /\ acc = << >>
    /\ log = << >>
    /\ outcome = NoOutcome
    /\ prev = "none"
    /\ OFFLINE_MODE = OFFLINE_MODE_default
    /\ disk \in Disks

NextDownloads ==
    \/ download_file
    \/ download_dir
    \/ Called

SpecDownloads == InitDownloads /\ [][NextDownloads]_vars

\* constructing DOIs
NextDOI ==
    \/ doi_create
    \/ Called

SpecDOI == Init /\ [][NextDOI]_vars

\* the versions among the tags
NextVersions ==
    \/ semantic_versions
    \/ Called

SpecVersions == Init /\ [][NextVersions]_vars

\* creating URLs under the process-wide flag
NextOffline ==
    \/ set_offline_mode
    \/ url_create
    \/ Called

SpecOffline == Init /\ [][NextOffline]_vars

Next ==
    \/ NextReads
    \/ NextUpdates
    \/ NextValidated

Spec == Init /\ [][Next]_vars

---------------------------------------------------------------------------
(* What a finished or running paginated call has seen. *)

\* the number of items of the page received in exchange i of the call
PageLen(i) == Len(log[i].resp.body)

\* the exchanges of the call that were answered by a page
Answered == {i \in 1..Len(log) : log[i].resp.kind = "ok"}

\* the index of the first page of the call with fewer than 100 items (0: none yet)
FirstShort ==
    IF \E i \in Answered : PageLen(i) < PageSize
        THEN CHOOSE i \in Answered :
                /\ PageLen(i) < PageSize
                /\ \A j \in Answered : j < i => ~(PageLen(j) < PageSize)
        ELSE 0

RECURSIVE ItemsUpTo(_)
\* the number of items on the pages 1..k of the call
ItemsUpTo(k) == IF k = 0 THEN 0 ELSE ItemsUpTo(k - 1) + PageLen(k)

RECURSIVE PagesUpTo(_)
\* the pages 1..k of the call, one after the other
PagesUpTo(k) == IF k = 0 THEN << >> ELSE PagesUpTo(k - 1) \o log[k].resp.body

\* the query Repo._rest_query sends for page p of the running operation
FullPageQuery(p) ==
    "repos/" \o self.username \o "/" \o self.name \o "/" \o PageQuery(op, args, p)

Returned == pc = "done" /\ outcome.kind = "return"

---------------------------------------------------------------------------
(* C1: branches, labels, issue_labels and pull_list issue exactly k         *)
(* requests, k the first page with fewer than 100 items, and return as many *)
(* items as the pages 1..k hold together.                                   *)
C1_StopsAtFirstShortPage ==
    (Returned /\ op \in PlainPaginated) =>
        /\ FirstShort >= 1
        /\ Len(log) = FirstShort
        /\ Len(outcome.value) = ItemsUpTo(FirstShort)

\* pages of 100, 100 and 42 items: 242 items in 3 requests
C1_Witness ==
    /\ Returned /\ op = "branches"
    /\ Len(log) = 3 /\ PageLen(1) = 100 /\ PageLen(2) = 100 /\ PageLen(3) = 42
    /\ Len(outcome.value) = 242

(* C2: the list a paginated operation returns is the concatenation of the   *)
(* fetched pages in page order 1, 2, 3, ...; nothing is dropped, duplicated *)
(* or re-sorted.                                                            *)
C2_ResultIsConcatenationOfPages ==
    (Returned /\ op \in Paginated) =>
        /\ outcome.value = PagesUpTo(Len(log))
        /\ \A i \in 1..Len(log) : log[i].req.query = FullPageQuery(i)

C2_Witness ==
    /\ Returned /\ op = "labels"
    /\ Len(log) = 2 /\ PageLen(1) = 100 /\ PageLen(2) = 42
    /\ outcome.value[100] = Item(1, 100) /\ outcome.value[101] = Item(2, 1)

\* issue_comments stops at page i: the page is short or the cap is reached
CommentsStopAt(i) == PageLen(i) < PageSize \/ ItemsUpTo(i) >= args.max_count

(* C3: issue_comments stops after the first page at which the page holds    *)
(* fewer than 100 items or the accumulated comments have reached max_count; *)
(* with full pages and max_count = 150: at least 150 items, at most 2       *)
(* requests.                                                                *)
C3_CommentsStopAtCapOrShortPage ==
    (Returned /\ op = "issue_comments") =>
        /\ Len(log) >= 1
        /\ CommentsStopAt(Len(log))
        /\ \A i \in 1..(Len(log) - 1) : ~CommentsStopAt(i)
        /\ (args.max_count = 150 /\ \A i \in 1..Len(log) : PageLen(i) = PageSize)
              => (Len(outcome.value) >= 150 /\ Len(log) <= 2)

C3_Witness ==
    /\ Returned /\ op = "issue_comments" /\ args.max_count = 150
    /\ Len(log) = 2 /\ PageLen(1) = 100 /\ PageLen(2) = 100
    /\ Len(outcome.value) = 200

(* C4: issue_comments returns at most max_count comments (stated for every  *)
(* max_count of at least 1).                                                *)
C4_ReturnsAtMostMaxCount ==
    (Returned /\ op = "issue_comments" /\ args.max_count >= 1) =>
        Len(outcome.value) <= args.max_count

(* C5: when the request for page k fails, the failure reaches the caller    *)
(* unchanged, no later page is requested and nothing gathered is returned;  *)
(* every call starts at page 1 with an empty accumulator.                   *)
C5_FailurePropagatesAndNothingResumes ==
    op \in Paginated =>
        /\ \A i \in 1..Len(log) :
              Failed(log[i].resp) =>
                  /\ i = Len(log)
                  /\ pc = "done"
                  /\ outcome = Raise(log[i].resp)
        /\ (pc = "loop" /\ log = << >>) => (page = 1 /\ acc = << >>)
        /\ pc = "loop" => (page = Len(log) + 1 /\ acc = PagesUpTo(Len(log)))
        /\ Len(log) >= 1 => log[1].req.query = FullPageQuery(1)

\* the call after a failed call fails at its page 2
C5_Witness ==
    /\ prev = "raise" /\ op \in Paginated /\ pc = "done"
    /\ Len(log) = 2 /\ PageLen(1) = 100 /\ Failed(log[2].resp)
    /\ outcome = Raise(log[2].resp)

(* C8: no operation retries and none caches: within a call no request is    *)
(* issued twice, nothing follows a failed request, and a read issues its    *)
(* full set of requests whatever was called before.                         *)
C8_NoRetryNoCache ==
    /\ \A i, j \in 1..Len(log) : log[i].req = log[j].req => i = j
    /\ \A i \in 1..Len(log) : Failed(log[i].resp) => i = Len(log)
    /\ (pc = "done" /\ op = "info") => Len(log) = 1
    /\ (Returned /\ op \in PlainPaginated) => Len(log) = FirstShort

\* Repo.info read again after a call that returned
C8_Witness ==
    /\ prev = "return" /\ Returned /\ op = "info" /\ Len(log) = 1

---------------------------------------------------------------------------
(* Requests and answers of the finished call. *)

\* an answer that carries a failure: an HTTP error, a decode error, or a
\* GraphQL body with the key "errors"
IsEnvelope(resp) ==
    /\ ~Failed(resp)
    /\ resp.body.t = "dict"
    /\ "errors" \in DOMAIN resp.body.v

LastExchange == log[Len(log)]

RuleOps == {"branch_protection_rule_create", "branch_protection_rule_update"}

GraphQLOps == RuleOps \cup {"branch_create_linked"}

MutationName(o) ==
    CASE o = "branch_protection_rule_create" -> "createBranchProtectionRule"
      [] o = "branch_protection_rule_update" -> "updateBranchProtectionRule"
      [] OTHER                               -> "createLinkedBranch"

---------------------------------------------------------------------------
(* C7: whenever a request made inside an operation fails (HTTP error,      *)
(* decode error, or a GraphQL answer with the key "errors"), the caller    *)
(* observes it: the call raises, or returns that raw error envelope.       *)
(* pull_update drops what graphql_mutation returns, so an envelope         *)
(* answered to its draft conversion is followed by the PATCH, whose body   *)
(* is what the caller gets.                                                *)

C7_FailuresAreObserved ==
    pc = "done" =>
        \A i \in 1..Len(log) :
            (Failed(log[i].resp) \/ IsEnvelope(log[i].resp)) =>
                \/ outcome.kind = "raise"
                \/ outcome.kind = "return" /\ outcome.value = log[i].resp.body

---------------------------------------------------------------------------
(* C9: when the answer to the mutation of branch_protection_rule_create,   *)
(* branch_protection_rule_update or branch_create_linked holds the key     *)
(* "errors", the operation returns that answer as it is and raises         *)
(* nothing; otherwise it returns what is under data[mutationName]: the     *)
(* rule's id, or the branch's name and sha.                                *)

C9_ErrorsEnvelopeElseData ==
    ( /\ pc = "done"
      /\ op \in GraphQLOps
      /\ log # << >>
      /\ LastExchange.req.query = "graphql"
      /\ ~Failed(LastExchange.resp) ) =>
        LET b == LastExchange.resp.body
        IN  /\ outcome.kind = "return"
            /\ IF "errors" \in DOMAIN b.v
                   THEN outcome.value = b
                   ELSE LET d == b.v.data.v[MutationName(op)].v
                        IN  IF op \in RuleOps
                                THEN outcome.value = d.branchProtectionRule.v.id
                                ELSE outcome.value =
                                        Dict([name |-> d.linkedBranch.v.ref.v.name,
                                              sha  |-> d.linkedBranch.v.ref.v.target.v.oid])

\* a rule creation answered with an error envelope has returned it
C9_Witness ==
    /\ pc = "done"
    /\ op = "branch_protection_rule_create"
    /\ Len(log) = 2
    /\ IsEnvelope(LastExchange.resp)
    /\ "data" \notin DOMAIN LastExchange.resp.body.v
    /\ outcome = Return(LastExchange.resp.body)

---------------------------------------------------------------------------
(* C10: in issue_update, pull_update, pull_merge, repo_update and the      *)
(* branch protection rule operations, the payload of the outgoing request  *)
(* has no key for an argument left None and has every argument that was    *)
(* set, under its mapped field name (repo_update's three security          *)
(* settings under "security_and_analysis"); draft, has_discussions and the *)
(* vulnerability toggles are not in it.                                    *)

PayloadOps == {"issue_update", "pull_update", "pull_merge", "repo_update"} \cup RuleOps

\* the parameters that belong in the payload under a field of their own
PayloadParams(o) ==
    CASE o = "issue_update" -> {"title", "body", "state", "state_reason"}
      [] o = "pull_update"  -> {"title", "body", "state", "base", "maintainer_can_modify"}
      [] o = "pull_merge"   -> {"commit_title", "commit_message", "sha", "merge_method"}
      [] o = "repo_update"  -> RepoFields
      [] OTHER              -> DOMAIN args

FieldName(o, n) == IF o \in RuleOps THEN arg_map[n] ELSE n

\* the requests of the finished call that carry the payload
PayloadExchanges ==
    { i \in 1..Len(log) :
        IF op \in RuleOps THEN log[i].req.query = "graphql"
        ELSE log[i].req.verb = (IF op = "pull_merge" THEN "PUT" ELSE "PATCH") }

PayloadOf(req) ==
    IF req.query = "graphql" THEN req.json.v.variables.v.mutationInput.v
    ELSE IF req.json.t = "dict" THEN req.json.v
    ELSE EmptyDict

C10_OnlySetFieldsInPayload ==
    (pc = "done" /\ op \in PayloadOps) =>
        /\ \A i \in PayloadExchanges :
             LET payload == PayloadOf(log[i].req)
             IN  /\ \A n \in PayloadParams(op) :
                       IF IsNotNone(args[n])
                           THEN /\ FieldName(op, n) \in DOMAIN payload
                                /\ payload[FieldName(op, n)] =
                                      (IF op = "issue_update" THEN ToStr(args[n]) ELSE args[n])
                           ELSE FieldName(op, n) \notin DOMAIN payload
                 /\ DOMAIN payload \subseteq
                        {FieldName(op, n) : n \in PayloadParams(op)}
                            \cup (IF op = "repo_update" THEN {"security_and_analysis"} ELSE {})
                            \cup (IF op = "branch_protection_rule_create"
                                      THEN {"repositoryId"} ELSE {})
                 /\ op = "repo_update" =>
                       LET security == IF "security_and_analysis" \in DOMAIN payload
                                           THEN payload.security_and_analysis.v ELSE EmptyDict
                       IN  /\ DOMAIN security = {n \in RepoSecurity : IsNotNone(args[n])}
                           /\ \A n \in DOMAIN security :
                                 security[n] = Dict([status |-> Str(IF args[n].v THEN "enabled"
                                                                               ELSE "disabled")])
                           /\ ("security_and_analysis" \in DOMAIN payload) => DOMAIN security # {}
        /\ outcome.kind = "return" =>
              \/ PayloadExchanges # {}
              \/ op = "repo_update" /\ \A n \in RepoFields \cup RepoSecurity : ~IsNotNone(args[n])

\* a rule update with a setting switched off (set, but false) and a repository
\* update with a field switched off and a security setting have sent them
C10_Witness ==
    /\ pc = "done"
    /\ \/ /\ op = "branch_protection_rule_update"
          /\ args.allow_deletions = Bool(FALSE)
          /\ \E i \in PayloadExchanges :
                PayloadOf(log[i].req) = [branchProtectionRuleId |-> args.rule_id,
                                         allowsDeletions |-> Bool(FALSE)]
       \/ /\ op = "repo_update"
          /\ args.has_issues = Bool(FALSE)
          /\ args.secret_scanning = Bool(TRUE)
          /\ \E i \in PayloadExchanges :
                DOMAIN PayloadOf(log[i].req) = {"has_issues", "security_and_analysis"}

---------------------------------------------------------------------------
(* C6: whenever repo_topics_replace, label_create, label_update,           *)
(* label_delete, pages_create, pages_update, pull_create,                  *)
(* actions_permissions_workflow_default_set or release_asset_upload raises *)
(* an error for a bad argument (an error that is not the failure of a      *)
(* request), that call has issued no request.                              *)

ValidatingOps ==
    {"repo_topics_replace", "label_create", "label_update", "label_delete", "pages_create",
     "pages_update", "pull_create", "actions_permissions_workflow_default_set",
     "release_asset_upload"}

C6_ValidationBeforeAnyRequest ==
    ( /\ pc = "done"
      /\ op \in ValidatingOps
      /\ outcome.kind = "raise"
      /\ outcome.error \notin Failures ) => log = << >>

\* a label update with nothing to change and a topic of 51 characters were
\* both refused without a request
C6_Witness ==
    /\ pc = "done"
    /\ log = << >>
    /\ outcome.kind = "raise"
    /\ \/ /\ op = "label_update"
          /\ ~Truthy(args.new_name) /\ ~Truthy(args.color) /\ ~Truthy(args.description)
          /\ outcome.error.kind = "ValueError"
       \/ /\ op = "repo_topics_replace"
          /\ \E i \in 1..Len(args.topics) :
                IsStr(args.topics[i]) /\ Len(args.topics[i].v) = MaxTopicLen + 1

---------------------------------------------------------------------------
(* C11: the endpoint URLs, the token and the default headers a client      *)
(* stores are those of its construction after any sequence of requests,    *)
(* with or without extra_headers, on either endpoint: no request changes   *)
(* the client, and a request without extra_headers goes to the             *)
(* construction-time base URL with exactly the construction-time headers.  *)

ClientOps == {"rest_query", "graphql_query", "graphql_mutation"}

StoredAsConstructed ==
    /\ GitHubOf(self) = GitHub(GitHubOf(self).token)
    /\ (pc = "done" /\ op \in ClientOps /\ DOMAIN args.extra_headers = {}) =>
          \A i \in 1..Len(log) :
             /\ log[i].req.headers = GitHub(GitHubOf(self).token).headers
             /\ log[i].req.base = GitHub(GitHubOf(self).token).endpoint[log[i].req.endpoint]

C11_ClientIsImmutable ==
    /\ []StoredAsConstructed
    /\ [][ClientKind(self') = ClientKind(self) => self' = self]_vars

\* a Repo has sent a request with an extra header to the upload endpoint and
\* stores its default headers still
C11_Witness ==
    /\ pc = "done"
    /\ op = "rest_query"
    /\ ClientKind(self) = "Repo"
    /\ args.endpoint = "upload"
    /\ "Accept" \in DOMAIN args.extra_headers
    /\ "Accept" \in DOMAIN log[1].req.headers
    /\ "Accept" \notin DOMAIN self.github.headers
    /\ prev = "return"

---------------------------------------------------------------------------
(* C12: every request made through a GitHub object built with a token,     *)
(* and through the User and the Repo derived from it by GitHub.user and    *)
(* User.repo, carries Authorization: Bearer <token>, unless extra_headers  *)
(* overrides it; a client built without a token sends no Authorization     *)
(* header of its own. (The requests are those handed to the HTTP request   *)
(* function by rest_query, graphql_query and graphql_mutation.)            *)

CarriesToken ==
    (pc = "done" /\ op \in ClientOps) =>
        \A i \in 1..Len(log) :
            LET headers == log[i].req.headers
                token == GitHubOf(self).token
            IN  IF "Authorization" \in DOMAIN args.extra_headers
                    THEN headers["Authorization"] = args.extra_headers["Authorization"]
                ELSE IF token # ""
                    THEN /\ "Authorization" \in DOMAIN headers
                         /\ headers["Authorization"] = "Bearer " \o token
                ELSE "Authorization" \notin DOMAIN headers

C12_BearerTokenCarried ==
    /\ []CarriesToken
    /\ [][ /\ GitHubOf(self').token = GitHubOf(self).token
           /\ ClientKind(self') # "GitHub" => self'.token = GitHubOf(self).token ]_vars

\* a Repo derived from a GitHub object with a token has sent a request with it
C12_Witness ==
    /\ pc = "done"
    /\ op = "rest_query"
    /\ ClientKind(self) = "Repo"
    /\ self.token = "tok"
    /\ DOMAIN args.extra_headers = {}
    /\ log[1].req.headers["Authorization"] = "Bearer tok"

---------------------------------------------------------------------------
(* C13: OFFLINE_MODE is False by default; while it is True no reachability *)
(* probe and no network call is made for a URL, also when the caller asks  *)
(* for validation; a probe is made only when the caller asks for it and    *)
(* the flag is False.                                                      *)

ProbedOnlyOnlineAndAsked ==
    (pc = "done" /\ op = "url") =>
        /\ OFFLINE_MODE => log = << >>
        /\ log # << >> => (args.verify /\ ~OFFLINE_MODE)

C13_OfflineSuppressesProbing ==
    /\ OFFLINE_MODE = FALSE
    /\ []ProbedOnlyOnlineAndAsked

\* validation was asked for while the flag was set, and no probe was made
C13_Witness ==
    /\ pc = "done"
    /\ op = "url"
    /\ OFFLINE_MODE
    /\ args.verify
    /\ log = << >>

---------------------------------------------------------------------------
(* C14: the URL requested for page 1 of the labels of owner/name, the base *)
(* URL https://api.github.com joined with repos/owner/name/labels and the  *)
(* query per_page=100, page=1, serializes to                               *)
(* https://api.github.com/repos/owner/name/labels?per_page=100&page=1.     *)

C14_LabelsUrlSerialization ==
    (op = "labels" /\ log # << >>) =>
        LET req == log[1].req
            tokens == labels_tokens(self, FirstPage)
        IN  /\ req.base = Join(endpoint_tokens)
            /\ req.query = Join(tokens)
            /\ to_string(url_join(url_parse(endpoint_tokens), tokens))
                  = "https://api.github.com/repos/owner/name/labels?per_page=100&page=1"

\* the first page of the labels has been requested
C14_Witness ==
    /\ op = "labels"
    /\ pc = "loop"
    /\ Len(log) = 1
    /\ log[1].req.verb = "GET"
    /\ page = FirstPage + 1

---------------------------------------------------------------------------
(* C15: download_file asks the helper to overwrite only when the caller    *)
(* passed overwrite=True, download_dir never does, so a download operation *)
(* leaves every file that was there its content unless overwrite=True was  *)
(* passed; when download_dir meets two files of one name, which go to one  *)
(* destination path, the file written first keeps its content.             *)

DownloadOps == {"download_file", "download_dir"}

\* the helper calls of the call that has just ended
Downloads(l) == {i \in 1..Len(l) : l[i].req.verb = "download"}

C15_NoOverwriteUnlessAllowed ==
    [][ (pc = "idle" /\ pc' = "done" /\ op' \in DownloadOps) =>
          LET allowed == op' = "download_file" /\ args'.overwrite
          IN  /\ \A f \in DOMAIN disk :
                    f \in DOMAIN disk' /\ (disk'[f] = disk[f] \/ allowed)
              /\ \A i \in Downloads(log') : Truthy(log'[i].req.overwrite) => allowed
              /\ \A i, j \in Downloads(log') :
                    ( /\ i < j
                      /\ log'[i].req.filepath = log'[j].req.filepath
                      /\ log'[i].resp.kind = "written" ) =>
                        /\ log'[j].resp.kind = "refused"
                        /\ disk'[log'[i].req.filepath] = RemoteBytes(log'[i].req.url)
      ]_vars

\* download_dir has met a second file of the same name, and the file it wrote
\* first is as it was written
C15_Witness ==
    /\ pc = "done"
    /\ op = "download_dir"
    /\ outcome.kind = "return"
    /\ \E i, j \in Downloads(log) :
          /\ i < j
          /\ log[i].req.filepath = log[j].req.filepath
          /\ log[i].req.url # log[j].req.url
          /\ log[i].resp.kind = "written"
          /\ log[j].resp.kind = "refused"
          /\ disk[log[i].req.filepath] = RemoteBytes(log[i].req.url)

---------------------------------------------------------------------------
(* C16: semantic_versions returns one triple (X, Y, Z) for each tag whose  *)
(* name is exactly tag_prefix followed by X.Y.Z with X, Y, Z integers,     *)
(* nothing for any other tag, in ascending numeric order of (major, minor, *)
(* patch). tag_prefix goes into the pattern unescaped, so with a prefix    *)
(* that holds a "." a tag with any character in its place counts too.      *)

\* the names of the tags answered to the finished call
TagNames == [i \in 1..Len(log[1].resp.body.v) |-> tag_name(log[1].resp.body.v[i])]

\* the name is exactly the prefix followed by X.Y.Z
ExactVersionTag(prefix, name) ==
    /\ Len(name) > Len(prefix)
    /\ SubSeq(name, 1, Len(prefix)) = prefix
    /\ VersionBody(SubSeq(name, Len(prefix) + 1, Len(name)))

\* the triple (X, Y, Z) of such a name
TripleOf(prefix, name) ==
    LET parts == Split(SubSeq(name, Len(prefix) + 1, Len(name)), ".")
    IN  << ToInt(parts[1]), ToInt(parts[2]), ToInt(parts[3]) >>

C16_SortedTriplesOfExactTags ==
    (pc = "done" /\ op = "semantic_versions" /\ outcome.kind = "return") =>
        LET result == outcome.value.v
            exact == {i \in 1..Len(TagNames) : ExactVersionTag(args.tag_prefix, TagNames[i])}
        IN  /\ \A i, j \in 1..Len(result) : i < j => ~TupleLess(result[j], result[i])
            /\ Len(result) = Cardinality(exact)
            /\ \A i \in exact :
                  Cardinality({k \in 1..Len(result) :
                                  result[k] = TripleOf(args.tag_prefix, TagNames[i])})
                  = Cardinality({k \in exact : TripleOf(args.tag_prefix, TagNames[k])
                                                  = TripleOf(args.tag_prefix, TagNames[i])})

---------------------------------------------------------------------------
(* C17: for an identifier d of the form 10.<digits>/<suffix>, the inputs   *)
(* d, doi.org/d, dx.doi.org/d and the last two after http:// or https://   *)
(* all give .doi = d and .url = https://doi.org/d, so that constructing    *)
(* again from .url gives the same .doi; an input in none of these forms    *)
(* raises ValueError. The pattern's three optional groups are independent  *)
(* and the pattern is not anchored at the end, so more inputs are taken.   *)

\* d is 10.<digits>/<suffix>, the suffix free of whitespace
IsIdentifier(d) ==
    \E i \in 4..Len(d) :
        /\ SubSeq(d, 1, 3) = TenDotText
        /\ i > 4 /\ \A k \in 4..(i - 1) : d[k] \in Digits
        /\ d[i] = "/"
        /\ i < Len(d) /\ \A k \in (i + 1)..Len(d) : d[k] \notin Whitespace

\* what may stand before the identifier
DoiForms ==
    { << >>, DoiOrgText, DxText \o DoiOrgText,
      HttpText \o DoiOrgText, HttpText \o DxText \o DoiOrgText,
      HttpsText \o DoiOrgText, HttpsText \o DxText \o DoiOrgText }

\* the identifier of an input in one of the forms, NoMatch for any other input
IdentifierOf(x) ==
    LET ds == {SubSeq(x, Len(f) + 1, Len(x)) : f \in {g \in DoiForms : StartsWith(x, g)}}
    IN  IF \E d \in ds : IsIdentifier(d) THEN CHOOSE d \in ds : IsIdentifier(d) ELSE NoMatch

C17_DoiNormalization ==
    (pc = "done" /\ op = "DOI") =>
        LET d == IdentifierOf(args.doi)
        IN  IF d # NoMatch
                THEN /\ outcome.kind = "return"
                     /\ outcome.value.doi = d
                     /\ outcome.value.url = HttpsText \o DoiOrgText \o d
                     /\ DOI(outcome.value.url).kind = "return"
                     /\ DOI(outcome.value.url).value.doi = outcome.value.doi
                ELSE outcome = Raise(ValueError("doi"))
---------------------------------------------------------------------------
(* C18: pages_create with build_type 'legacy' raises ValueError when the   *)
(* branch is missing or the path is neither '/' nor '/docs', and otherwise *)
(* sends a payload with build_type and source {branch, path}; with         *)
(* build_type 'workflow' the payload holds build_type only, whatever       *)
(* branch and path are; any other build_type raises ValueError.            *)

\* the call was refused with a ValueError and no request was made
RefusedWithValueError ==
    log = << >> /\ outcome.kind = "raise" /\ outcome.error.kind = "ValueError"

\* the one request of the call carries this payload
SentPayload(data) == Len(log) = 1 /\ log[1].req.json = Dict(data)

C18_PagesCreateSource ==
    (pc = "done" /\ op = "pages_create") =>
        IF args.build_type = Str("legacy")
            THEN IF args.branch \in {None, Str("")} \/ args.path \notin {Str("/"), Str("/docs")}
                     THEN RefusedWithValueError
                     ELSE SentPayload([build_type |-> Str("legacy"),
                                       source |-> Dict([branch |-> args.branch,
                                                        path |-> args.path])])
        ELSE IF args.build_type = Str("workflow")
            THEN SentPayload([build_type |-> Str("workflow")])
        ELSE RefusedWithValueError

\* a legacy site published from main:/docs was created, a legacy site with
\* the path /src was refused, and a workflow site was created with a branch
\* and a path given
C18_Witness ==
    /\ pc = "done" /\ op = "pages_create"
    /\ \/ /\ args = [build_type |-> Str("legacy"), branch |-> Str("main"), path |-> Str("/docs")]
          /\ "source" \in DOMAIN log[1].req.json.v
       \/ /\ args = [build_type |-> Str("legacy"), branch |-> Str("main"), path |-> Str("/src")]
          /\ RefusedWithValueError
       \/ /\ args = [build_type |-> Str("workflow"), branch |-> Str("main"), path |-> Str("/src")]
          /\ DOMAIN log[1].req.json.v = {"build_type"}

---------------------------------------------------------------------------
(* C19: pages_update sends cname null for the empty string, the value for  *)
(* a non-empty cname and no cname key for None; the source section is in   *)
(* the payload only when build_type is 'legacy'.                           *)

C19_PagesUpdateCname ==
    (pc = "done" /\ op = "pages_update" /\ log # << >>) =>
        LET payload == log[1].req.json.v
        IN  /\ args.cname = Str("") => ("cname" \in DOMAIN payload /\ payload.cname = None)
            /\ (IsStr(args.cname) /\ args.cname # Str("")) =>
                  ("cname" \in DOMAIN payload /\ payload.cname = args.cname)
            /\ args.cname = None => "cname" \notin DOMAIN payload
            /\ "source" \in DOMAIN payload => args.build_type = Str("legacy")

\* the custom domain was removed with an empty cname, and a branch given
\* without a legacy build went unsent
C19_Witness ==
    /\ pc = "done" /\ op = "pages_update" /\ Len(log) = 1
    /\ \/ /\ args.cname = Str("")
          /\ log[1].req.json.v.cname = None
       \/ /\ args.build_type = Str("workflow") /\ args.branch = Str("main")
          /\ "source" \notin DOMAIN log[1].req.json.v

---------------------------------------------------------------------------
(* C20: within one call of a paginated operation the requests are          *)
(* identical except for the page index: the i-th request asks for page i   *)
(* (the first for page 1, each further one for the previous index plus 1), *)
(* every request asks for per_page=100, and a step of the loop adds one    *)
(* request and leaves the earlier ones as they were.                       *)

\* what the queries of a call may hold before the page index: the resource,
\* the filters and the fixed page size
PageStems ==
    { "repos/" \o self.username \o "/" \o self.name \o "/" \o resource \o "per_page=100" \o filter :
        resource \in { "branches?", "labels?", "issues/7/labels?", "issues/7/comments?",
                       "pulls?state=open&sort=created&direction=desc&" },
        filter \in { "", "&head=feat" } }

\* the requests so far differ in the page index alone, which counts 1, 2, 3, ...
PageIndexCountsUp ==
    (op \in Paginated /\ log # << >>) =>
        \E stem \in PageStems :
            \A i \in 1..Len(log) :
                log[i].req = [log[1].req EXCEPT !.query = stem \o "&page=" \o ToString(i)]

C20_PageIndexSequence ==
    /\ []PageIndexCountsUp
    /\ [][pc = "loop" => /\ Len(log') = Len(log) + 1
                         /\ SubSeq(log', 1, Len(log)) = log]_vars

\* pull requests filtered by head were listed in three requests, for the
\* pages 1, 2 and 3
C20_Witness ==
    /\ pc = "done" /\ op = "pull_list" /\ args.head = Str("feat")
    /\ Len(log) = 3
    /\ log[3].req.query = "repos/" \o self.username \o "/" \o self.name
                            \o "/pulls?state=open&sort=created&direction=desc"
                            \o "&per_page=100&head=feat&page=3"

---------------------------------------------------------------------------
(* C21: when the pages 1..k of the endpoint hold 100 items each and page   *)
(* k + 1 is empty, a paginated operation without a cap issues exactly one  *)
(* request more than the k pages need, for page k + 1, receives the empty  *)
(* page and returns the 100 * k items of the pages 1..k; a full page never *)
(* ends the call.                                                          *)

\* the pages 1..k of the call were full
FullUpTo(k) == \A i \in 1..k : log[i].resp.kind = "ok" /\ PageLen(i) = PageSize

ExtraRequestAfterFullLastPage ==
    (op \in PlainPaginated /\ log # << >>) =>
        LET k == Len(log) - 1
        IN  /\ pc = "loop" => (FullUpTo(k + 1) /\ page = k + 2)
            /\ FullUpTo(k + 1) => pc = "loop"
            /\ (k >= 1 /\ FullUpTo(k) /\ log[k + 1].resp.kind = "ok" /\ PageLen(k + 1) = 0) =>
                  /\ Returned
                  /\ log[k + 1].req.query = FullPageQuery(k + 1)
                  /\ outcome.value = PagesUpTo(k)
                  /\ Len(outcome.value) = PageSize * k

C21_OneExtraRequestOnFullLastPage ==
    /\ []ExtraRequestAfterFullLastPage
    /\ [][(pc = "loop" /\ op \in PlainPaginated /\ pc' = "loop") =>
              /\ Len(log'[Len(log')].resp.body) = PageSize
              /\ page' = page + 1]_vars

\* 200 labels on two full pages: a third request, answered by an empty page
C21_Witness ==
    /\ Returned /\ op = "labels"
    /\ Len(log) = 3 /\ PageLen(1) = 100 /\ PageLen(2) = 100 /\ PageLen(3) = 0
    /\ Len(outcome.value) = 200

---------------------------------------------------------------------------
(* C22: pull_update issues its requests in a fixed order. With draft given: *)
(* the GET of the pull request, then the mutation (convertPullRequestToDraft *)
(* for true, markPullRequestReadyForReview for false) with the node_id the  *)
(* GET answered, then the PATCH; without draft: the PATCH alone. When no    *)
(* request raises, exactly one PATCH is issued and it is the last request,  *)
(* also when no other field is set; a request that raises is the last one,  *)
(* so a GET or a mutation that raises is not followed by the PATCH.         *)

\* the requests of the finished pull_update
IsPullGet(x) ==
    x.req.verb = "GET" /\ x.req.query = "repos/" \o self.username \o "/" \o self.name \o "/pulls/7"
IsPullPatch(x) ==
    x.req.verb = "PATCH" /\ x.req.query = "repos/" \o self.username \o "/" \o self.name \o "/pulls/7"
IsDraftMutation(x, draft, node_id) ==
    /\ x.req.verb = "POST" /\ x.req.query = "graphql"
    /\ x.req.json.v.query =
          (IF draft THEN Str("mutation($mutationInput:ConvertPullRequestToDraftInput!) "
                             \o "{convertPullRequestToDraft(input:$mutationInput) "
                             \o "{pullRequest {isDraft}}}")
                    ELSE Str("mutation($mutationInput:MarkPullRequestReadyForReviewInput!) "
                             \o "{markPullRequestReadyForReview(input:$mutationInput) "
                             \o "{pullRequest {isDraft}}}"))
    /\ x.req.json.v.variables.v.mutationInput.v = [pullRequestId |-> node_id]

---------------------------------------------------------------------------
(* C23: repo_update issues its requests in the fixed order discussions     *)
(* (the GET of the repository for its node id, then the GraphQL mutation), *)
(* private-vulnerability-reporting, vulnerability-alerts,                  *)
(* automated-security-fixes, repository PATCH; each step only when its     *)
(* argument is set, a toggle as PUT for true and DELETE for false, the     *)
(* PATCH if and only if one of the remaining fields is set. With nothing   *)
(* set there is no request and the result is empty. When a step raises no  *)
(* later step is issued, and no request undoes an earlier one.             *)

\* the verb and the query of a request under the repository
RepoStep(verb, query) ==
    [verb |-> verb, query |-> "repos/" \o self.username \o "/" \o self.name \o "/" \o query]

\* the step of a toggle argument
ToggleStep(value, query) ==
    IF value = None THEN << >>
    ELSE << RepoStep(IF value = Bool(TRUE) THEN "PUT" ELSE "DELETE", query) >>

\* the requests a call with these arguments issues when nothing raises
RepoUpdateSteps(a) ==
    (IF a.has_discussions = None THEN << >>
     ELSE << RepoStep("GET", ""), [verb |-> "POST", query |-> "graphql"] >>)
    \o ToggleStep(a.private_vulnerability_reporting, "private-vulnerability-reporting")
    \o ToggleStep(a.vulnerability_alerts, "vulnerability-alerts")
    \o ToggleStep(a.automated_security_fixes, "automated-security-fixes")
    \o (IF \E n \in RepoFields \cup RepoSecurity : a[n] # None
            THEN << RepoStep("PATCH", "") >> ELSE << >>)

\* the verbs and queries of the requests issued
IssuedSteps == [i \in 1..Len(log) |-> [verb |-> log[i].req.verb, query |-> log[i].req.query]]

C23_RepoUpdateStepOrder ==
    (pc = "done" /\ op = "repo_update") =>
        LET steps == RepoUpdateSteps(args)
            n == Len(log)
        IN  /\ n <= Len(steps)
            /\ IssuedSteps = SubSeq(steps, 1, n)
            /\ outcome.kind = "return" => n = Len(steps)
            /\ \A i \in 1..(n - 1) : ~Failed(log[i].resp)
            /\ (n >= 1 /\ Failed(log[n].resp)) => outcome = Raise(log[n].resp)
            /\ steps = << >> => outcome = Return(Dict(EmptyDict))

\* vulnerability alerts were switched off and the issues switched on: a
\* DELETE, then the PATCH; and a toggle that raised left the PATCH unsent
C23_Witness ==
    /\ pc = "done" /\ op = "repo_update"
    /\ \/ /\ args.vulnerability_alerts = Bool(FALSE) /\ args.has_issues = Bool(TRUE)
          /\ Len(log) = 2
          /\ log[1].req.verb = "DELETE" /\ log[2].req.verb = "PATCH"
       \/ /\ args.private_vulnerability_reporting = Bool(TRUE) /\ args.has_wiki # None
          /\ Len(log) = 1 /\ outcome = Raise(log[1].resp)

---------------------------------------------------------------------------
(* C24: branches, labels, issue_labels and pull_list end once the endpoint *)
(* returns a page of fewer than 100 items, and return for no other reason; *)
(* issue_comments ends for every max_count, also on an endpoint whose      *)
(* pages are full without end.                                             *)

\* an uncapped operation returns only after a short page
ReturnsOnlyAfterShortPage ==
    (Returned /\ op \in PlainPaginated) =>
        (log # << >> /\ PageLen(Len(log)) < PageSize)

C24_PaginationTerminates ==
    /\ []ReturnsOnlyAfterShortPage
    /\ (pc = "loop") ~> (pc = "done")

\* 1000 comments were asked for and ten full pages were fetched from an
\* endpoint that had not run out
C24_Witness ==
    /\ Returned /\ op = "issue_comments" /\ args.max_count = 1000
    /\ Len(log) = 10 /\ \A i \in 1..10 : PageLen(i) = PageSize

---------------------------------------------------------------------------
(* C25: issue_comments issues at least one request, also when max_count is *)
(* 0 or negative, and never more than max(1, ceil(max_count / 100))        *)
(* requests, whatever the endpoint returns.                                *)

\* max(1, ceil(n / 100))
MostRequests(n) == IF (n + PageSize - 1) \div PageSize > 1 THEN (n + PageSize - 1) \div PageSize ELSE 1

C25_CommentsRequestCount ==
    op = "issue_comments" =>
        /\ Len(log) <= MostRequests(args.max_count)
        /\ pc = "done" => Len(log) >= 1

\* a call with max_count 0 made its one request, and a call with max_count
\* 150 stopped after two full pages
C25_Witness ==
    /\ Returned /\ op = "issue_comments"
    /\ \/ args.max_count = 0 /\ Len(log) = 1 /\ PageLen(1) = PageSize
       \/ args.max_count = 150 /\ Len(log) = 2 /\ PageLen(2) = PageSize

---------------------------------------------------------------------------
(* C26: download_dir raises ValueError and downloads nothing when the      *)
(* content answered for the path is not a list, and download_file raises   *)
(* ValueError and downloads nothing when the content is not a single entry *)
(* of type 'file': the call ends after its one request for the content,    *)
(* and the files are as they were.                                         *)

\* the content answered to the first request of a call that has just ended
FirstContent(l) == l[1].resp.body

\* what the operation o cannot download
NotWhatIsExpected(o, content) ==
    IF o = "download_dir" THEN content.t # "list"
    ELSE ~(content.t = "dict" /\ content.v.type = Str("file"))

C26_ContentCheckedBeforeDownload ==
    [][ ( /\ pc = "idle" /\ pc' = "done" /\ op' \in DownloadOps
          /\ log' # << >> /\ ~Failed(log'[1].resp)
          /\ NotWhatIsExpected(op', FirstContent(log')) ) =>
            /\ outcome'.kind = "raise"
            /\ outcome'.error.kind = "ValueError"
            /\ Len(log') = 1
            /\ Downloads(log') = {}
            /\ disk' = disk
      ]_vars

\* download_file was given the path of a symbolic link, and download_dir the
\* path of a file; both raised ValueError after the one request
C26_Witness ==
    /\ pc = "done" /\ Len(log) = 1 /\ ~Failed(log[1].resp)
    /\ outcome.kind = "raise" /\ outcome.error.kind = "ValueError"
    /\ \/ op = "download_file" /\ FirstContent(log).t = "dict"
                               /\ FirstContent(log).v.type = Str("symlink")
       \/ op = "download_dir" /\ FirstContent(log).t = "dict"

====
